---- MODULE Spec2Model ----
(***************************************************************************)
(* Verification model of the FalkorDB query front-end:                     *)
(*   - the reference-counted AST handle (ast.c),                           *)
(*   - the scope validator (ast_validations.c),                            *)
(*   - the parse_query pipeline (ast.c).                                   *)
(* Each part has its own specification over the shared variables.          *)
(***************************************************************************)
EXTENDS Integers, Sequences, FiniteSets, TLC

\* ------------------------------------------------------------------------
\* Bounds
\* ------------------------------------------------------------------------
MaxHandles == 4     \* AST structs that may be allocated
MaxGroups  == 2     \* reference-count cells that may be allocated
MaxThreads == 2     \* threads releasing handles concurrently

\* the 32-bit reference counter cell, held as its two's-complement reading
\* (AST_DecRefCount returns the cell as an int)
IntMax == 2147483647
IntMin == (-2147483647) - 1

VARIABLES
    handles,    \* AST structs: handle id -> fields
    cells,      \* *ref_count: cell id -> counter value
    disposed,   \* how often each resource has been disposed
    dlog,       \* who disposed what (by handle origin)
    tpc,        \* per thread: position inside AST_Free
    names,      \* annotation-context collections and the last AST_ToString call
    vs,         \* _ValidateScopes: validations_ctx, maps, error slot
    vpc,        \* _ValidateScopes: position in the walk over the clauses
    vn,         \* _ValidateScopes: clauses visited so far
    pq,         \* parse_query: the query, its position and its outcome
    qv          \* AST_Validate_Query: the query body, its position, its outcome

astVars == <<handles, cells, disposed, dlog, tpc, names>>
scopeVars == <<vs, vpc, vn>>
parseVars == <<pq>>
queryVars == <<qv>>

vars == <<astVars, scopeVars, parseVars, queryVars>>

\* ------------------------------------------------------------------------
\* AST handle (ast.c)
\* ------------------------------------------------------------------------
Handles == 1..MaxHandles
Groups  == 1..MaxGroups
Threads == 1..MaxThreads

NULL == 0
NULL_INT == -1      \* an absent integer node

\* an AST struct that has not been allocated yet
NoHandle ==
    [st |-> "none", origin |-> "none", free_root |-> FALSE, ref_count |-> NULL,
     root |-> NULL, parse_result |-> NULL, referenced_entities |-> NULL,
     anot_ctx_collection |-> NULL]

Idle == [pc |-> "idle", h |-> NULL, rc |-> 0]

ZeroCount == [g \in Groups |-> 0]

FreshHandles == {h \in Handles : handles[h].st = "none"}
FreshGroups  == {g \in Groups : cells[g].st = "none"}
NewHandle == CHOOSE h \in FreshHandles : \A k \in FreshHandles : h <= k
NewGroup  == CHOOSE g \in FreshGroups : \A k \in FreshGroups : g <= k

\* no string: a NULL char pointer, an absent identifier
NoStr == <<>>

\* the AST nodes handed to AST_ToString: an un-aliased node pattern, an
\* un-aliased relationship pattern, an aliased node pattern, an expression
AstNodes ==
    {[id |-> 1, t |-> "NODE_PATTERN", identifier |-> NoStr],
     [id |-> 2, t |-> "REL_PATTERN", identifier |-> NoStr],
     [id |-> 3, t |-> "NODE_PATTERN", identifier |-> <<"a">>],
     [id |-> 4, t |-> "BINARY_OPERATOR", identifier |-> NoStr]}
NodeIds == {n.id : n \in AstNodes}

\* AST_AnnotationCtxCollection_New: no annotation attached, anon_count = 0
AST_AnnotationCtxCollection_New ==
    [anon_count |-> 0, to_string |-> [i \in NodeIds |-> NoStr]]

\* no AST_ToString call made yet
NoCall ==
    [node |-> NULL, g |-> NULL, origin |-> "none", dangling |-> FALSE,
     pre |-> AST_AnnotationCtxCollection_New, ret |-> NoStr]

InitAst ==
    /\ handles = [h \in Handles |-> NoHandle]
    /\ cells = [g \in Groups |-> [st |-> "none", count |-> 0]]
    /\ disposed = [root |-> ZeroCount, parse_result |-> ZeroCount,
                   anot |-> ZeroCount, refmap |-> ZeroCount, cell |-> ZeroCount]
    /\ dlog = {}
    /\ tpc = [t \in Threads |-> Idle]
    /\ names = [col |-> [g \in Groups |-> AST_AnnotationCtxCollection_New],
                call |-> NoCall]

\* AST_Build: master handle owning the parse-result and a fresh
\* annotation-context collection, *ref_count = 1
AST_Build ==
    /\ FreshHandles # {} /\ FreshGroups # {}
    /\ LET h == NewHandle
           g == NewGroup
       IN /\ handles' = [handles EXCEPT ![h] =
                 [st |-> "live", origin |-> "master", free_root |-> FALSE,
                  ref_count |-> g, root |-> g, parse_result |-> g,
                  referenced_entities |-> NULL, anot_ctx_collection |-> g]]
          /\ cells' = [cells EXCEPT ![g] = [st |-> "live", count |-> 1]]
          /\ names' = [names EXCEPT !.col[g] = AST_AnnotationCtxCollection_New]
    /\ UNCHANGED <<disposed, dlog, tpc, scopeVars, parseVars, queryVars>>

\* the value NewSegment gives to free_root
SegmentFreeRoot_Mut == FALSE
SegmentFreeRoot == TRUE

\* AST_NewSegment: own counter and synthesized root, annotation contexts
\* shared with the master, own reference map
AST_NewSegment(m) ==
    /\ handles[m].st = "live"
    /\ FreshHandles # {} /\ FreshGroups # {}
    /\ LET h == NewHandle
           g == NewGroup
       IN /\ handles' = [handles EXCEPT ![h] =
                 [st |-> "live", origin |-> "segment",
                  free_root |-> SegmentFreeRoot,
                  ref_count |-> g, root |-> g, parse_result |-> NULL,
                  referenced_entities |-> g,
                  anot_ctx_collection |-> handles[m].anot_ctx_collection]]
          /\ cells' = [cells EXCEPT ![g] = [st |-> "live", count |-> 1]]
    /\ UNCHANGED <<disposed, dlog, tpc, names, scopeVars, parseVars, queryVars>>

\* AST_IncreaseRefCount: __atomic_fetch_add(ast->ref_count, 1)
AST_IncreaseRefCount_Mut(c) == c
AST_IncreaseRefCount(c) == IF c = IntMax THEN IntMin ELSE c + 1

\* AST_ShallowCopy: bump the shared counter, memcpy the struct
AST_ShallowCopy(orig) ==
    /\ handles[orig].st = "live"
    /\ FreshHandles # {}
    /\ LET g == handles[orig].ref_count
       IN cells' = [cells EXCEPT ![g].count = AST_IncreaseRefCount(@)]
    /\ handles' = [handles EXCEPT ![NewHandle] = handles[orig]]
    /\ UNCHANGED <<disposed, dlog, tpc, names, scopeVars, parseVars, queryVars>>

\* the cell after an atomic subtraction of 1
AtomicSub1(c) == IF c = IntMin THEN IntMax ELSE c - 1

\* AST_DecRefCount: __atomic_sub_fetch(ast->ref_count, 1), the value returned
AST_DecRefCount_Mut(c) == c
AST_DecRefCount(c) == AtomicSub1(c)

\* AST_Free, first half: the atomic decrement; the thread keeps the result
AST_Free_Dec(t, h) ==
    /\ tpc[t].pc = "idle"
    /\ handles[h].st = "live"
    /\ LET g == handles[h].ref_count
       IN /\ cells' = [cells EXCEPT ![g].count = AtomicSub1(@)]
          /\ tpc' = [tpc EXCEPT ![t] =
                 [pc |-> "dec", h |-> h, rc |-> AST_DecRefCount(cells[g].count)]]
    /\ handles' = [handles EXCEPT ![h].st = "releasing"]
    /\ UNCHANGED <<disposed, dlog, names, scopeVars, parseVars, queryVars>>

\* resources AST_Free disposes for handle a when its decrement returned 0
DisposeSet(a) ==
    (IF a.free_root
        THEN {<<"root", a.root>>}
        ELSE {<<"anot", a.anot_ctx_collection>>} \cup
             (IF a.parse_result # NULL
                 THEN {<<"parse_result", a.parse_result>>} ELSE {}))
    \cup (IF a.referenced_entities # NULL
             THEN {<<"refmap", a.referenced_entities>>} ELSE {})
    \cup {<<"cell", a.ref_count>>}

\* AST_Free, second half: dispose when the count reached zero, free the struct
AST_Free_Dispose(t) ==
    /\ tpc[t].pc = "dec"
    /\ LET h == tpc[t].h
           a == handles[h]
           D == IF tpc[t].rc = 0 THEN DisposeSet(a) ELSE {}
       IN /\ disposed' = [res \in DOMAIN disposed |->
                            [g \in Groups |->
                               disposed[res][g] +
                               (IF <<res, g>> \in D THEN 1 ELSE 0)]]
          /\ dlog' = dlog \cup {[by |-> a.origin, res |-> d[1]] : d \in D}
          /\ cells' = IF <<"cell", a.ref_count>> \in D
                         THEN [cells EXCEPT ![a.ref_count].st = "freed"]
                         ELSE cells
          /\ handles' = [handles EXCEPT ![h].st = "freed"]
    /\ tpc' = [tpc EXCEPT ![t] = Idle]
    /\ UNCHANGED <<names, scopeVars, parseVars, queryVars>>

\* _create_anon_alias: asprintf("@anon_%u", anon_count)
create_anon_alias_Mut(anon_count) == <<"@anon_", 0>>
create_anon_alias(anon_count) == <<"@anon_", anon_count>>

\* AST_ToString, the slice of the query text a node spans
SourceSlice(node) == <<"text", node.id>>

\* AST_ToString on a collection: the string returned and the collection left
AST_ToString_Annotate(col, node) ==
    LET str == col.to_string[node.id]
        alias == create_anon_alias(col.anon_count)
    IN IF str # NoStr
          THEN [ret |-> str, col |-> col]
       ELSE IF node.t \in {"NODE_PATTERN", "REL_PATTERN"}
          THEN IF node.identifier # NoStr
                  THEN [ret |-> node.identifier, col |-> col]
                  ELSE [ret |-> alias,
                        col |-> [anon_count |-> col.anon_count + 1,
                                 to_string |-> [col.to_string EXCEPT
                                                   ![node.id] = alias]]]
       ELSE [ret |-> SourceSlice(node),
             col |-> [col EXCEPT !.to_string[node.id] = SourceSlice(node)]]

\* what a read through a pointer to a disposed collection may return
DanglingStrings == {NoStr, create_anon_alias(0)}

\* the worker that holds the query context
Worker == CHOOSE t \in Threads : \A u \in Threads : t <= u

\* AST_ToString(node) with handle h as the AST of the query context; the
\* collection is reached through h, and is dangling once it was disposed
AST_ToString(h, node) ==
    /\ handles[h].st = "live"
    /\ tpc[Worker].pc = "idle"
    /\ LET g == handles[h].anot_ctx_collection
           col == names.col[g]
           r == AST_ToString_Annotate(col, node)
       IN IF disposed.anot[g] = 0
             THEN names' = [col |-> [names.col EXCEPT ![g] = r.col],
                            call |-> [node |-> node.id, g |-> g,
                                      origin |-> handles[h].origin,
                                      dangling |-> FALSE,
                                      pre |-> col, ret |-> r.ret]]
             ELSE \E str \in DanglingStrings :
                     names' = [names EXCEPT !.call =
                                  [node |-> node.id, g |-> g,
                                   origin |-> handles[h].origin,
                                   dangling |-> TRUE,
                                   pre |-> col, ret |-> str]]
    /\ UNCHANGED <<handles, cells, disposed, dlog, tpc,
                   scopeVars, parseVars, queryVars>>

\* one query: its master AST, the segments and copies made of it, their
\* release and AST_ToString, all on the worker that holds the query context
NextNames ==
    \/ (\A h \in Handles : handles[h].st = "none") /\ AST_Build
    \/ \E m \in Handles : AST_NewSegment(m)
    \/ \E h \in Handles : AST_ShallowCopy(h)
    \/ \E h \in Handles : AST_Free_Dec(Worker, h)
    \/ AST_Free_Dispose(Worker)
    \/ \E h \in Handles, node \in AstNodes : AST_ToString(h, node)

NextAst ==
    \/ AST_Build
    \/ \E m \in Handles : AST_NewSegment(m)
    \/ \E h \in Handles : AST_ShallowCopy(h)
    \/ \E t \in Threads, h \in Handles : AST_Free_Dec(t, h)
    \/ \E t \in Threads : AST_Free_Dispose(t)

\* ------------------------------------------------------------------------
\* Properties of the AST handle
\* ------------------------------------------------------------------------
HandlesOf(g) == {h \in Handles : handles[h].st # "none" /\ handles[h].ref_count = g}
AllFreed(g) == HandlesOf(g) # {} /\ \A h \in HandlesOf(g) : handles[h].st = "freed"
IsMasterGroup(g) == \E h \in HandlesOf(g) : handles[h].origin = "master"
IsSegmentGroup(g) == \E h \in HandlesOf(g) : handles[h].origin = "segment"
\* disposals of the resources reached through counter cell g
OwnDisposals(g) ==
    {disposed.cell[g], disposed.parse_result[g], disposed.refmap[g]} \cup
    (IF IsMasterGroup(g) THEN {disposed.anot[g]} ELSE {})

\* C1: the resources shared through one reference count are disposed at most
\* once, never while a handle sharing the count is still unreleased, and
\* exactly once when every handle sharing the count has been released.
C1_RefcountSound ==
    \A g \in Groups :
        /\ \A n \in OwnDisposals(g) : n <= 1
        /\ (\E n \in OwnDisposals(g) : n > 0) =>
               \A h \in HandlesOf(g) : handles[h].st # "live"
        /\ AllFreed(g) =>
               /\ disposed.cell[g] = 1
               /\ IsMasterGroup(g) =>
                      disposed.parse_result[g] = 1 /\ disposed.anot[g] = 1
               /\ IsSegmentGroup(g) => disposed.refmap[g] = 1

\* C1 witness: a master with two shallow copies, all three released
C1_Witness ==
    \E g \in Groups :
        /\ AllFreed(g) /\ IsMasterGroup(g)
        /\ Cardinality(HandlesOf(g)) >= 3
        /\ disposed.parse_result[g] = 1

\* threads that are between the decrement and the disposal for cell g
InFlight(g) == {t \in Threads : tpc[t].pc = "dec" /\ handles[tpc[t].h].ref_count = g}
SawZero(g) == {t \in InFlight(g) : tpc[t].rc = 0}

\* C2: under concurrent release, at most one AST_Free observes the count
\* reaching zero (counting the one that already disposed), and once all
\* handles are released exactly one has disposed the shared resources.
C2_ConcurrentRelease ==
    \A g \in Groups :
        /\ Cardinality(SawZero(g)) + disposed.cell[g] <= 1
        /\ (cells[g].st # "none" /\ \A h \in HandlesOf(g) : handles[h].st # "live")
              => Cardinality(SawZero(g)) + disposed.cell[g] = 1

\* C2 witness: two threads are inside AST_Free on handles of the same count
\* at the same time, one of them having observed zero
C2_Witness ==
    \E g \in Groups :
        /\ Cardinality(InFlight(g)) >= 2
        /\ Cardinality(SawZero(g)) = 1

\* C3: a segment handle reaching zero disposes its synthesized root and its
\* reference map, never the parse-result or the annotation contexts; a
\* master handle reaching zero disposes the annotation contexts and the
\* parse-result and never a root node.
C3_DisposalByKind ==
    /\ \A e \in dlog :
          /\ e.by = "segment" => e.res \in {"root", "refmap", "cell"}
          /\ e.by = "master" => e.res \in {"anot", "parse_result", "cell"}
    /\ \A g \in Groups :
          AllFreed(g) =>
             /\ IsSegmentGroup(g) =>
                    disposed.root[g] = 1 /\ disposed.refmap[g] = 1
             /\ IsMasterGroup(g) =>
                    /\ disposed.anot[g] = 1 /\ disposed.parse_result[g] = 1
                    /\ disposed.root[g] = 0

\* C3 witness: a segment and its master have both been released to zero
C3_Witness ==
    /\ \E g \in Groups : AllFreed(g) /\ IsSegmentGroup(g) /\ disposed.root[g] = 1
    /\ \E g \in Groups : AllFreed(g) /\ IsMasterGroup(g) /\ disposed.anot[g] = 1

\* ------------------------------------------------------------------------
\* Scope validator (ast_validations.c): names, environments, error slot
\* ------------------------------------------------------------------------
\* identifier names are C strings; the validator looks at their first char
nA  == <<"a">>
nB  == <<"b">>
nAt == <<"@", "a">>
Names == {nA, nB, nAt}
NoName == <<>>                       \* absent identifier / alias (NULL)
IsInternal(name) == name[1] = "@"    \* alias[0] == '@'

\* values stored in the identifiers rax
raxNotFound == "raxNotFound"
T_NODE == "T_NODE"
T_EDGE == "T_EDGE"
VNULL  == "NULL"

\* is_union_all
NOT_DEFINED == -1
REGULAR == 0
ALL == 1

EmptyEnv == [n \in Names |-> raxNotFound]

\* raxNew: a fresh map; ids are never reused
NewId(s) == s.nalloc + 1
raxNew(s) ==
    [s EXCEPT !.nalloc = @ + 1, !.heap = @ @@ (NewId(s) :> EmptyEnv)]

\* raxClone: a fresh map with the keys and values of src
raxClone(s, src) ==
    [s EXCEPT !.nalloc = @ + 1,
              !.heap = @ @@ (NewId(s) :>
                         (IF src \in DOMAIN s.heap THEN s.heap[src] ELSE EmptyEnv)),
              !.uaf = @ \/ src \notin DOMAIN s.heap]

\* raxFree: releases a live map; freeing a map twice is recorded
raxFree(s, id) ==
    IF id \in DOMAIN s.heap
       THEN [s EXCEPT !.heap = [i \in DOMAIN s.heap \ {id} |-> s.heap[i]]]
       ELSE [s EXCEPT !.dbl_free = TRUE]

\* the map vctx->defined_identifiers points to, "dangling" once freed
Dangling == [n \in Names |-> "dangling"]
EnvOf(s) == IF s.def \in DOMAIN s.heap THEN s.heap[s.def] ELSE Dangling

\* raxFind
raxFind(s, id, key) ==
    IF id \in DOMAIN s.heap THEN s.heap[id][key] ELSE raxNotFound

\* raxInsert: overwrites the value of an existing key
raxInsert(s, id, key, value) ==
    IF id \in DOMAIN s.heap
       THEN [s EXCEPT !.heap[id][key] = value]
       ELSE [s EXCEPT !.uaf = TRUE]

\* raxTryInsert: keeps the value of an existing key
raxTryInsert(s, id, key, value) ==
    IF raxFind(s, id, key) = raxNotFound THEN raxInsert(s, id, key, value)
    ELSE [s EXCEPT !.uaf = @ \/ id \notin DOMAIN s.heap]

\* raxRemove
raxRemove(s, id, key) ==
    IF id \in DOMAIN s.heap
       THEN [s EXCEPT !.heap[id][key] = raxNotFound]
       ELSE [s EXCEPT !.uaf = TRUE]

\* _IdentifiersFind
IdentifiersFind(s, identifier) == raxFind(s, s.def, identifier)

\* _IdentifierAdd
IdentifierAdd(s, identifier, value) == raxInsert(s, s.def, identifier, value)

\* _IdentifierRemove
IdentifierRemove(s, identifier) == raxRemove(s, s.def, identifier)

\* _IdentifierCount
IdentifierCount(s) ==
    Cardinality({n \in Names : IdentifiersFind(s, n) # raxNotFound})

\* ErrorCtx_SetError: the slot keeps the first error; calls are counted
MaxErrCount == 2
ErrorCtx_SetError(s, code) ==
    [s EXCEPT !.err = IF @ = "none" THEN code ELSE @,
              !.nerr = IF @ < MaxErrCount THEN @ + 1 ELSE @]

\* ErrorCtx_EncounteredError
ErrorCtx_EncounteredError(s) == s.err # "none"

\* strategies returned by the handlers
RECURSE(s)  == [s EXCEPT !.strat = "RECURSE"]
CONTINUE(s) == [s EXCEPT !.strat = "CONTINUE"]
BREAK(s)    == [s EXCEPT !.strat = "BREAK"]

\* AST_Validation results of the checking functions
AST_VALID(s)   == [s EXCEPT !.res = "AST_VALID"]
AST_INVALID(s) == [s EXCEPT !.res = "AST_INVALID"]

\* ------------------------------------------------------------------------
\* AST nodes
\* ------------------------------------------------------------------------
NoNode == [t |-> "NULL"]
Present(n) == n.t # "NULL"

Ident(name) == [t |-> "IDENTIFIER", name |-> name]
IntLit == [t |-> "INTEGER"]
Apply(f, args) == [t |-> "APPLY_OPERATOR", func |-> f, args |-> args]
ApplyAll(f, d) == [t |-> "APPLY_ALL_OPERATOR", func |-> f, distinct |-> d]
ListCompr(id, exp, pred, eval) ==
    [t |-> "LIST_COMPREHENSION", id |-> id, exp |-> exp, pred |-> pred, eval |-> eval]
PatCompr(id, pattern, pred, eval) ==
    [t |-> "PATTERN_COMPREHENSION", id |-> id, pattern |-> pattern,
     pred |-> pred, eval |-> eval]
Reduce(accum, init, id, exp, eval) ==
    [t |-> "REDUCE", accum |-> accum, init |-> init, id |-> id, exp |-> exp,
     eval |-> eval]
NodePat(id, nlabels, props) ==
    [t |-> "NODE_PATTERN", id |-> id, nlabels |-> nlabels, props |-> props]
RelPat(id, nreltypes, dir, varlength, props) ==
    [t |-> "REL_PATTERN", id |-> id, nreltypes |-> nreltypes, dir |-> dir,
     varlength |-> varlength, props |-> props]
Range(start, end) == [t |-> "RANGE", start |-> start, end |-> end]
Path(elems) == [t |-> "PATTERN_PATH", elems |-> elems]
Map(vals) == [t |-> "MAP", vals |-> vals]
Projection(exp, alias) == [t |-> "PROJECTION", exp |-> exp, alias |-> alias]

\* the arithmetic-function registry
AR_FuncExists(f) == f \in {"abs", "count"}
AR_FuncIsAggregate(f) == f = "count"

\* the procedure registry: argc (-1 for variadic) and the output names
PROCEDURE_VARIABLE_ARG_COUNT == -1
Procedures ==
    [labels |-> [t |-> "PROC", argc |-> 0, outputs |-> {nA, nB}],
     vari   |-> [t |-> "PROC", argc |-> PROCEDURE_VARIABLE_ARG_COUNT,
                 outputs |-> {nA}]]
Proc_Get(name) == IF name \in DOMAIN Procedures THEN Procedures[name] ELSE NoNode

\* ------------------------------------------------------------------------
\* The visitor and the expression / pattern handlers
\* ------------------------------------------------------------------------
OptNode(n) == IF Present(n) THEN <<n>> ELSE <<>>
OptIdent(name) == IF name # NoName THEN <<Ident(name)>> ELSE <<>>

\* cypher_astnode_get_child: the children of a node, in order
Children(n) ==
    CASE n.t = "APPLY_OPERATOR" -> n.args
      [] n.t = "BINARY_OPERATOR" -> <<n.l, n.r>>
      [] n.t = "PROPERTY_OPERATOR" -> <<n.exp>>
      [] n.t = "MAP" -> n.vals
      [] n.t = "LIST_COMPREHENSION" ->
            <<Ident(n.id), n.exp>> \o OptNode(n.pred) \o OptNode(n.eval)
      [] n.t = "PATTERN_COMPREHENSION" ->
            OptIdent(n.id) \o <<n.pattern>> \o OptNode(n.pred) \o OptNode(n.eval)
      [] n.t = "REDUCE" ->
            <<Ident(n.accum), n.init, Ident(n.id), n.exp>> \o OptNode(n.eval)
      [] n.t = "NODE_PATTERN" -> OptIdent(n.id) \o OptNode(n.props)
      [] n.t = "REL_PATTERN" ->
            OptIdent(n.id) \o OptNode(n.props) \o OptNode(n.varlength)
      [] n.t = "PATTERN_PATH" -> n.elems
      [] n.t = "NAMED_PATH" -> <<Ident(n.id), n.path>>
      [] n.t = "PROJECTION" -> <<n.exp>> \o OptIdent(n.alias)
      [] n.t = "MATCH" -> n.pattern \o OptNode(n.predicate)
      [] n.t = "MERGE" -> <<n.path>>
      [] n.t = "CREATE" -> n.pattern
      [] n.t = "DELETE" -> n.exprs
      [] n.t = "SET" -> n.items
      [] n.t = "SET_PROPERTY" -> <<n.property, n.exp>>
      [] n.t = "UNWIND" -> <<n.exp, Ident(n.alias)>>
      [] n.t = "FOREACH" -> <<Ident(n.id), n.exp>> \o n.clauses
      [] n.t = "WITH" ->
            n.projections \o OptNode(n.predicate) \o OptNode(n.order_by)
               \o OptNode(n.skip) \o OptNode(n.limit)
      [] n.t = "RETURN" ->
            n.projections \o OptNode(n.order_by)
               \o OptNode(n.skip) \o OptNode(n.limit)
      [] n.t = "ORDER_BY" -> n.items
      [] n.t = "REMOVE" -> n.items
      [] n.t = "REMOVE_PROPERTY" -> <<n.property>>
      [] n.t = "CALL" -> n.args \o n.projections
      [] n.t = "CALL_SUBQUERY" -> n.body
      [] OTHER -> <<>>

RECURSIVE TreeContainsType(_, _)
\* AST_GetTypedNodes(root, type) is not empty
TreeContainsType(root, type) ==
    \/ root.t = type
    \/ \E i \in 1..Len(Children(root)) : TreeContainsType(Children(root)[i], type)

RECURSIVE Visit(_, _), VisitNode(_, _), VisitAll(_, _, _), Handler(_, _, _)

\* the two ways a handler ends after a check or a visit
BreakIfInvalid(s) == IF s.res = "AST_INVALID" THEN BREAK(s) ELSE RECURSE(s)
BreakIfError(s) == IF ErrorCtx_EncounteredError(s) THEN BREAK(s) ELSE CONTINUE(s)
AddIf(c, identifier, s) == IF c THEN IdentifierAdd(s, identifier, VNULL) ELSE s
RemoveIf(c, identifier, s) == IF c THEN IdentifierRemove(s, identifier) ELSE s

\* _Validate_referred_identifier
Validate_referred_identifier(s, identifier) ==
    IF IdentifiersFind(s, identifier) = raxNotFound
       THEN AST_INVALID(ErrorCtx_SetError(s, "NotDefined"))
       ELSE AST_VALID(s)

\* (variant: the lookup is made whatever ignore_identifiers says)
Validate_identifier_Mut(n, start, s) ==
    IF ~start THEN CONTINUE(s)
    ELSE BreakIfInvalid(Validate_referred_identifier(s, n.name))
\* _Validate_identifier
Validate_identifier(n, start, s) ==
    IF ~start \/ s.ignore_identifiers THEN CONTINUE(s)
    ELSE BreakIfInvalid(Validate_referred_identifier(s, n.name))

\* comprehensions: the local identifier is removed if it was introduced
Comprehension_end(n, is_new, visited, s) ==
    IF visited /\ ErrorCtx_EncounteredError(s) THEN BREAK(s)
    ELSE CONTINUE(RemoveIf(is_new, n.id, s))

\* comprehensions: visit eval
Comprehension_eval(n, is_new, visited, s) ==
    IF visited /\ ErrorCtx_EncounteredError(s) THEN BREAK(s)
    ELSE IF Present(n.eval)
            THEN Comprehension_end(n, is_new, TRUE, Visit(n.eval, s))
            ELSE Comprehension_end(n, is_new, FALSE, s)

\* comprehensions: visit predicate
Comprehension_pred(n, is_new, visited, s) ==
    IF visited /\ ErrorCtx_EncounteredError(s) THEN BREAK(s)
    ELSE IF Present(n.pred)
            THEN Comprehension_eval(n, is_new, TRUE, Visit(n.pred, s))
            ELSE Comprehension_eval(n, is_new, FALSE, s)

\* _Validate_list_comprehension: visit expression
list_comprehension_exp(n, is_new, s) ==
    IF Present(n.exp)
       THEN Comprehension_pred(n, is_new, TRUE, Visit(n.exp, s))
       ELSE Comprehension_pred(n, is_new, FALSE, s)

\* _Validate_list_comprehension
Validate_list_comprehension(n, s) ==
    LET is_new == IdentifiersFind(s, n.id) = raxNotFound
    IN list_comprehension_exp(n, is_new, AddIf(is_new, n.id, s))

\* _Validate_pattern_comprehension: visit pattern
pattern_comprehension_pattern(n, is_new, s) ==
    IF Present(n.pattern)
       THEN Comprehension_pred(n, is_new, TRUE, Visit(n.pattern, s))
       ELSE Comprehension_pred(n, is_new, FALSE, s)

\* _Validate_pattern_comprehension
Validate_pattern_comprehension(n, s) ==
    LET is_new == IF n.id # NoName
                     THEN IdentifiersFind(s, n.id) = raxNotFound
                     ELSE FALSE
    IN pattern_comprehension_pattern(n, is_new, AddIf(is_new, n.id, s))

RECURSIVE Validate_map_loop(_, _, _)
\* _Validate_map: visits the values of the map
Validate_map_next(vals, i, s) ==
    IF ErrorCtx_EncounteredError(s) THEN BREAK(s)
    ELSE Validate_map_loop(vals, i + 1, s)

Validate_map_loop(vals, i, s) ==
    IF i > Len(vals) THEN CONTINUE(s)
    ELSE Validate_map_next(vals, i, Visit(vals[i], s))

\* _Validate_map
Validate_map(n, s) == Validate_map_loop(n.vals, 1, s)

\* _Validate_projection
Validate_projection(n, s) == BreakIfError(Visit(n.exp, s))

\* _ValidateFunctionCall
ValidateFunctionCall(s, funcName, include_aggregates) ==
    IF ~AR_FuncExists(funcName)
       THEN AST_INVALID(ErrorCtx_SetError(s, "UnknownFunction"))
    ELSE IF ~include_aggregates /\ AR_FuncIsAggregate(funcName)
            THEN AST_INVALID(ErrorCtx_SetError(s, "InvalidUseOfAggregation"))
            ELSE AST_VALID(s)

\* _Validate_apply_all_operator
Validate_apply_all_operator(n, start, s) ==
    IF ~start THEN CONTINUE(s)
    ELSE IF n.func # "count"
            THEN BREAK(ErrorCtx_SetError(s, "InvalidUsageOfStarParameter"))
    ELSE IF n.distinct
            THEN BREAK(ErrorCtx_SetError(s, "InvalidUsageOfDistinctStar"))
    ELSE RECURSE(s)

\* _Validate_apply_operator
Validate_apply_operator(n, start, s) ==
    IF ~start THEN CONTINUE(s)
    ELSE BreakIfInvalid(ValidateFunctionCall(s, n.func,
                                             s.clause \in {"WITH", "RETURN"}))

\* _Validate_reduce: the clause is changed back, the locals are removed
reduce_end(n, orig_clause, introduce_accum, introduce_list_var, s) ==
    IF ErrorCtx_EncounteredError(s) THEN BREAK(s)
    ELSE CONTINUE(RemoveIf(introduce_list_var, n.id,
                           RemoveIf(introduce_accum, n.accum,
                                    [s EXCEPT !.clause = orig_clause])))

\* _Validate_reduce: the list variable, then the eval expression
reduce_list_var(n, orig_clause, introduce_accum, s) ==
    LET introduce_list_var == IdentifiersFind(s, n.id) = raxNotFound
    IN reduce_end(n, orig_clause, introduce_accum, introduce_list_var,
                  Visit(n.eval, AddIf(introduce_list_var, n.id, s)))

\* _Validate_reduce: the eval expression exists; the accumulator
reduce_accum(n, orig_clause, s) ==
    IF ErrorCtx_EncounteredError(s) THEN BREAK(s)
    ELSE IF ~Present(n.eval)
            THEN BREAK(ErrorCtx_SetError(s, "MissingEvalExpInReduce"))
    ELSE LET introduce_accum == IdentifiersFind(s, n.accum) = raxNotFound
         IN reduce_list_var(n, orig_clause, introduce_accum,
                            AddIf(introduce_accum, n.accum, s))

\* _Validate_reduce: the list expression
reduce_list(n, orig_clause, visited, s) ==
    IF visited /\ ErrorCtx_EncounteredError(s) THEN BREAK(s)
    ELSE IF n.exp.t = "IDENTIFIER" /\
            IdentifiersFind(s, n.exp.name) = raxNotFound
            THEN BREAK(ErrorCtx_SetError(s, "NotDefined"))
    ELSE reduce_accum(n, orig_clause, Visit(n.exp, s))

\* _Validate_reduce: the init expression
reduce_init(n, orig_clause, s) ==
    IF n.init.t = "IDENTIFIER"
       THEN IF IdentifiersFind(s, n.init.name) = raxNotFound
               THEN BREAK(ErrorCtx_SetError(s, "NotDefined"))
               ELSE reduce_list(n, orig_clause, FALSE, s)
       ELSE reduce_list(n, orig_clause, TRUE, Visit(n.init, s))

\* _Validate_reduce
Validate_reduce(n, start, s) ==
    IF ~start THEN CONTINUE(s)
    ELSE reduce_init(n, s.clause, [s EXCEPT !.clause = "REDUCE"])

\* _ValidateInlinedProperties
ValidateInlinedProperties(s, props) ==
    IF ~Present(props) THEN AST_VALID(s)
    ELSE IF props.t # "MAP"
            THEN AST_INVALID(ErrorCtx_SetError(s, "UnhandledTypeInlineProperties"))
    ELSE IF \E i \in 1..Len(props.vals) :
                TreeContainsType(props.vals[i], "PATTERN_PATH")
            THEN AST_INVALID(ErrorCtx_SetError(s, "UnhandledTypeInlineProperties"))
    ELSE AST_VALID(s)

\* _ValidateMultiHopTraversal: start defaults to 1, end to INT_MAX - 2
ValidateMultiHopTraversal(s, range) ==
    LET start == IF range.start # NULL_INT THEN range.start ELSE 1
        end   == IF range.end # NULL_INT THEN range.end ELSE IntMax - 2
    IN IF start > end
          THEN AST_INVALID(ErrorCtx_SetError(s, "VarLenInvalidRange"))
          ELSE AST_VALID(s)

\* (variant: the number of types is checked before the identifier)
ValidateMergeRelation_Mut(s, entity) ==
    IF Present(entity.varlength)
       THEN AST_INVALID(ErrorCtx_SetError(s, "VarLen"))
    ELSE IF entity.nreltypes # 1
       THEN AST_INVALID(ErrorCtx_SetError(s, "OneRelationshipType"))
    ELSE IF entity.id # NoName /\ IdentifiersFind(s, entity.id) # raxNotFound
       THEN AST_INVALID(ErrorCtx_SetError(s, "Redeclare"))
    ELSE AST_VALID(s)
\* _ValidateMergeRelation
ValidateMergeRelation(s, entity) ==
    IF Present(entity.varlength)
       THEN AST_INVALID(ErrorCtx_SetError(s, "VarLen"))
    ELSE IF entity.id # NoName /\ IdentifiersFind(s, entity.id) # raxNotFound
       THEN AST_INVALID(ErrorCtx_SetError(s, "Redeclare"))
    ELSE IF entity.nreltypes # 1
       THEN AST_INVALID(ErrorCtx_SetError(s, "OneRelationshipType"))
    ELSE AST_VALID(s)

\* _ValidateMergeNode
ValidateMergeNode(s, entity) ==
    IF IdentifierCount(s) = 0 THEN AST_VALID(s)
    ELSE IF entity.id = NoName THEN AST_VALID(s)
    ELSE IF IdentifiersFind(s, entity.id) = raxNotFound THEN AST_VALID(s)
    ELSE IF entity.nlabels # 0 \/ Present(entity.props)
       THEN AST_INVALID(ErrorCtx_SetError(s, "Redeclare"))
    ELSE AST_VALID(s)

\* _ValidateCreateRelation
ValidateCreateRelation(s, entity) ==
    IF entity.id # NoName /\ IdentifiersFind(s, entity.id) # raxNotFound
       THEN AST_INVALID(ErrorCtx_SetError(s, "Redeclare"))
       ELSE AST_VALID(s)

\* (variant: a bound first node is a redeclaration whatever the path's length)
Validate_CREATE_Entities_Mut(s, path) ==
    IF /\ path.elems[1].id # NoName
       /\ IdentifiersFind(s, path.elems[1].id) # raxNotFound
       THEN AST_INVALID(ErrorCtx_SetError(s, "Redeclare"))
       ELSE AST_VALID(s)
\* _Validate_CREATE_Entities
Validate_CREATE_Entities(s, path) ==
    IF /\ Len(path.elems) = 1
       /\ path.elems[1].id # NoName
       /\ IdentifiersFind(s, path.elems[1].id) # raxNotFound
       THEN AST_INVALID(ErrorCtx_SetError(s, "Redeclare"))
       ELSE AST_VALID(s)

\* _Validate_rel_pattern, the checks made when the clause is CREATE
rel_pattern_create_checks(n, s) ==
    IF s.res = "AST_INVALID" THEN s
    ELSE IF n.nreltypes # 1
            THEN AST_INVALID(ErrorCtx_SetError(s, "OneRelationshipType"))
    ELSE IF n.dir = "BIDIRECTIONAL"
            THEN AST_INVALID(ErrorCtx_SetError(s, "CreateDirectedRelationship"))
    ELSE IF Present(n.varlength)
            THEN AST_INVALID(ErrorCtx_SetError(s, "VarLen"))
    ELSE AST_VALID(s)

Validate_rel_pattern_create(n, s) ==
    rel_pattern_create_checks(n, ValidateCreateRelation(s, n))

\* _Validate_rel_pattern, the handling of the alias
Validate_rel_pattern_alias(n, s) ==
    IF s.res = "AST_INVALID" THEN BREAK(s)
    ELSE IF n.id = NoName THEN RECURSE(s)
    ELSE LET alias_type == IdentifiersFind(s, n.id)
         IN IF alias_type = raxNotFound
               THEN RECURSE(IdentifierAdd(s, n.id, T_EDGE))
            ELSE IF alias_type # T_EDGE /\ alias_type # VNULL
               THEN BREAK(ErrorCtx_SetError(s, "SameAliasNodeAndRelationship"))
            ELSE IF s.clause = "MATCH" /\ alias_type # VNULL
               THEN BREAK(ErrorCtx_SetError(s, "SameAliasMultiplePatterns"))
            ELSE RECURSE(s)

\* _Validate_rel_pattern, the multi-hop check
rel_pattern_range(n, s) ==
    IF s.res = "AST_INVALID" THEN BREAK(s)
    ELSE IF n.id = NoName /\ ~Present(n.varlength) THEN RECURSE(s)
    ELSE Validate_rel_pattern_alias(n,
             IF Present(n.varlength)
                THEN ValidateMultiHopTraversal(s, n.varlength)
                ELSE AST_VALID(s))

\* _Validate_rel_pattern, the check made when the clause is MERGE
rel_pattern_merge(n, s) ==
    IF s.res = "AST_INVALID" THEN BREAK(s)
    ELSE rel_pattern_range(n, IF s.clause = "MERGE"
                                 THEN ValidateMergeRelation(s, n)
                                 ELSE AST_VALID(s))

\* _Validate_rel_pattern, the inlined properties
rel_pattern_props(n, s) ==
    IF s.res = "AST_INVALID" THEN BREAK(s)
    ELSE rel_pattern_merge(n, ValidateInlinedProperties(s, n.props))

\* _Validate_rel_pattern
Validate_rel_pattern(n, start, s) ==
    IF ~start THEN CONTINUE(s)
    ELSE rel_pattern_props(n, IF s.clause = "CREATE"
                                 THEN Validate_rel_pattern_create(n, s)
                                 ELSE AST_VALID(s))

\* _Validate_node_pattern, the introduction of the alias
node_pattern_add(n, s) ==
    IF s.res = "AST_INVALID" THEN BREAK(s)
    ELSE RECURSE(IdentifierAdd(s, n.id, T_NODE))

\* _Validate_node_pattern, the checks on the alias
node_pattern_alias(n, s) ==
    IF s.res = "AST_INVALID" THEN BREAK(s)
    ELSE IF n.id = NoName THEN RECURSE(s)
    ELSE LET alias_type == IdentifiersFind(s, n.id)
         IN node_pattern_add(n,
               IF s.clause = "MERGE" THEN ValidateMergeNode(s, n)
               ELSE IF /\ alias_type # raxNotFound
                       /\ alias_type # VNULL
                       /\ alias_type # T_NODE
                  THEN AST_INVALID(ErrorCtx_SetError(s,
                                       "SameAliasNodeAndRelationship"))
               ELSE AST_VALID(s))

\* _Validate_node_pattern
Validate_node_pattern(n, start, s) ==
    IF ~start THEN CONTINUE(s)
    ELSE node_pattern_alias(n, ValidateInlinedProperties(s, n.props))

\* _Validate_named_path
Validate_named_path(n, start, s) ==
    IF ~start THEN CONTINUE(s)
    ELSE RECURSE(IdentifierAdd(s, n.id, VNULL))

\* _visit_binary_op
visit_binary_op(n, s) ==
    IF n.op \in {"SUBSCRIPT", "MAP_PROJECTION", "REGEX"}
       THEN BREAK(ErrorCtx_SetError(s, "UnsupportedOperator"))
       ELSE RECURSE(s)

\* _visit_break
visit_break(n, s) == BREAK(ErrorCtx_SetError(s, "UnsupportedASTNodeType"))

\* _default_visit
default_visit(n, s) == RECURSE(s)

\* ------------------------------------------------------------------------
\* Clause handlers
\* ------------------------------------------------------------------------
SetClause(s, n) == [s EXCEPT !.clause = n.t]
SetEnv(s, id) == [s EXCEPT !.def = id]

\* _Validate_LIMIT_SKIP_Modifiers
Validate_LIMIT_SKIP_Modifiers(s, limit, skip) ==
    IF Present(limit) /\ limit.t \notin {"INTEGER", "PARAMETER"}
       THEN AST_INVALID(ErrorCtx_SetError(s, "LimitMustBeNonNegative"))
    ELSE IF Present(skip) /\ skip.t \notin {"INTEGER", "PARAMETER"}
       THEN AST_INVALID(ErrorCtx_SetError(s, "SkipMustBeNonNegative"))
    ELSE AST_VALID(s)

\* the column name of a projection: its alias, else its identifier expression
ColumnName(proj) == IF proj.alias # NoName THEN proj.alias ELSE proj.exp.name

RECURSIVE AST_GetWithAliases_loop(_, _, _, _)
\* _AST_GetWithAliases, the duplicate check of one alias
AST_GetWithAliases_insert(node, i, local_env, alias, s) ==
    IF raxFind(s, local_env, alias) # raxNotFound /\ ~IsInternal(alias)
       THEN AST_INVALID(raxFree(ErrorCtx_SetError(s, "SameResultColumnName"),
                                local_env))
       ELSE AST_GetWithAliases_loop(node, i + 1, local_env,
                                    raxTryInsert(s, local_env, alias, VNULL))

\* _AST_GetWithAliases, the loop over the projections
AST_GetWithAliases_loop(node, i, local_env, s) ==
    IF i > Len(node.projections) THEN AST_VALID(raxFree(s, local_env))
    ELSE IF node.projections[i].alias = NoName /\
            node.projections[i].exp.t # "IDENTIFIER"
       THEN AST_INVALID(raxFree(
                ErrorCtx_SetError(s, "WithProjectionMissingAlias"), local_env))
    ELSE AST_GetWithAliases_insert(node, i, local_env,
             ColumnName(node.projections[i]),
             IdentifierAdd(s, ColumnName(node.projections[i]), VNULL))

\* _AST_GetWithAliases
AST_GetWithAliases(node, s) ==
    IF node.t # "WITH" THEN AST_INVALID(s)
    ELSE AST_GetWithAliases_loop(node, 1, NewId(s), raxNew(s))

\* _AST_GetProcCallAliases
RECURSIVE AST_GetProcCallAliases(_, _, _)
AST_GetProcCallAliases(node, i, s) ==
    IF i > Len(node.projections) THEN s
    ELSE AST_GetProcCallAliases(node, i + 1,
             IdentifierAdd(AddIf(node.projections[i].alias # NoName,
                                 node.projections[i].alias, s),
                           node.projections[i].exp.name, VNULL))

\* _Validate_CALL_Clause: the yield outputs are unique and known
RECURSIVE Validate_CALL_projections(_, _, _, _, _)
Validate_CALL_projections(n, proc, j, rax, s) ==
    IF j > Len(n.projections) THEN s
    ELSE LET identifier == n.projections[j].exp.name
         IN IF raxFind(s, rax, identifier) # raxNotFound
               THEN ErrorCtx_SetError(s, "VariableAlreadyDeclared")
            ELSE IF identifier \notin proc.outputs
               THEN ErrorCtx_SetError(raxInsert(s, rax, identifier, VNULL),
                                      "ProcedureInvalidOutput")
            ELSE Validate_CALL_projections(n, proc, j + 1, rax,
                                           raxInsert(s, rax, identifier, VNULL))

\* (variant: the number of arguments is not compared with the arity)
CALL_checks_Mut(n, proc, s) ==
    IF ~Present(proc)
       THEN ErrorCtx_SetError(s, "ProcedureNotRegistered")
    ELSE raxFree(Validate_CALL_projections(n, proc, 1, NewId(s), raxNew(s)),
                 NewId(s))
\* _Validate_CALL_Clause, start: the checks against the procedure
CALL_checks(n, proc, s) ==
    IF ~Present(proc)
       THEN ErrorCtx_SetError(s, "ProcedureNotRegistered")
    ELSE IF proc.argc # PROCEDURE_VARIABLE_ARG_COUNT /\ proc.argc # Len(n.args)
       THEN ErrorCtx_SetError(s, "ProcedureInvalidArguments")
    ELSE raxFree(Validate_CALL_projections(n, proc, 1, NewId(s), raxNew(s)),
                 NewId(s))

CALL_cleanup(s) ==
    IF ~ErrorCtx_EncounteredError(s) THEN RECURSE(s) ELSE BREAK(s)

Validate_CALL_Clause_start(n, s) ==
    CALL_cleanup(CALL_checks(n, Proc_Get(n.proc),
                             AST_GetProcCallAliases(n, 1, SetClause(s, n))))

\* _Validate_CALL_Clause, end: drop the output names that were aliased
RECURSIVE Validate_CALL_Clause_end(_, _, _)
Validate_CALL_Clause_end(n, j, s) ==
    IF j > Len(n.projections) THEN CONTINUE(s)
    ELSE Validate_CALL_Clause_end(n, j + 1,
             RemoveIf(n.projections[j].alias # NoName,
                      n.projections[j].exp.name, s))

\* _Validate_CALL_Clause
Validate_CALL_Clause(n, start, s) ==
    IF start THEN Validate_CALL_Clause_start(n, s)
             ELSE Validate_CALL_Clause_end(n, 1, s)

\* _Validate_WITH_Clause: the new environment of a WITH without *
RECURSIVE WITH_NewEnv(_, _, _)
WITH_NewEnv(n, i, s) ==
    IF i > Len(n.projections) THEN s
    ELSE WITH_NewEnv(n, i + 1,
                     IdentifierAdd(s, ColumnName(n.projections[i]), VNULL))

\* a fresh empty map becomes the environment
NewEnv(s) == SetEnv(raxNew(s), NewId(s))

WITH_ReplaceEnv(n, visited, s) ==
    IF visited /\ ErrorCtx_EncounteredError(s) THEN BREAK(s)
    ELSE IF ~n.include_existing
       THEN CONTINUE(WITH_NewEnv(n, 1, NewEnv(raxFree(s, s.def))))
       ELSE CONTINUE(s)

\* _Validate_WITH_Clause: visit ORDER BY
WITH_order_by(n, visited, s) ==
    IF visited /\ ErrorCtx_EncounteredError(s) THEN BREAK(s)
    ELSE IF Present(n.order_by)
       THEN WITH_ReplaceEnv(n, TRUE, Visit(n.order_by, s))
       ELSE WITH_ReplaceEnv(n, FALSE, s)

\* _Validate_WITH_Clause: visit the predicate
WITH_predicate(n, s) ==
    IF s.res = "AST_INVALID" THEN BREAK(s)
    ELSE IF Present(n.predicate)
       THEN WITH_order_by(n, TRUE, Visit(n.predicate, s))
       ELSE WITH_order_by(n, FALSE, s)

RECURSIVE Validate_WITH_projections(_, _, _)
\* _Validate_WITH_Clause: after the visit of a projection
WITH_projection_visited(n, i, s) ==
    IF ErrorCtx_EncounteredError(s) THEN BREAK(s)
    ELSE Validate_WITH_projections(n, i + 1, s)

\* (variant: the aliases are introduced before the projections are visited)
Validate_WITH_projections_Mut(n, i, s) ==
    IF i > Len(n.projections) THEN WITH_predicate(n, AST_VALID(s))
    ELSE WITH_projection_visited(n, i,
             Visit(n.projections[i],
                   IF i = 1 THEN AST_GetWithAliases(n, s) ELSE s))
\* _Validate_WITH_Clause: visit the projections, then introduce the aliases
Validate_WITH_projections(n, i, s) ==
    IF i > Len(n.projections) THEN WITH_predicate(n, AST_GetWithAliases(n, s))
    ELSE WITH_projection_visited(n, i, Visit(n.projections[i], s))

WITH_modifiers_checked(n, s) ==
    IF s.res = "AST_INVALID" THEN BREAK(s)
    ELSE Validate_WITH_projections(n, 1, s)

\* _Validate_WITH_Clause
Validate_WITH_Clause(n, s) ==
    WITH_modifiers_checked(n,
        Validate_LIMIT_SKIP_Modifiers(SetClause(s, n), n.limit, n.skip))

\* _Validate_RETURN_Clause: duplicate column names
RECURSIVE RETURN_columns(_, _, _, _)
RETURN_columns(columns, i, rax, s) ==
    IF i > Len(columns) THEN s
    ELSE IF raxFind(s, rax, columns[i]) # raxNotFound
            THEN ErrorCtx_SetError(s, "SameResultColumnName")
            ELSE RETURN_columns(columns, i + 1, rax,
                                raxInsert(s, rax, columns[i], VNULL))

\* AST_BuildReturnColumnNames
AST_BuildReturnColumnNames(n) ==
    [i \in 1..Len(n.projections) |-> ColumnName(n.projections[i])]

RETURN_CheckColumns(n, s) ==
    IF ~n.include_existing
       THEN raxFree(RETURN_columns(AST_BuildReturnColumnNames(n), 1, NewId(s),
                                   raxNew(s)),
                    NewId(s))
       ELSE s

\* _Validate_RETURN_Clause: introduce the aliases
RECURSIVE RETURN_IntroduceAliases(_, _, _)
RETURN_IntroduceAliases(n, i, s) ==
    IF i > Len(n.projections) THEN s
    ELSE RETURN_IntroduceAliases(n, i + 1,
             AddIf(n.projections[i].alias # NoName, n.projections[i].alias, s))

\* _Validate_RETURN_Clause: the result
RETURN_end(s) ==
    IF ~ErrorCtx_EncounteredError(s) THEN CONTINUE(s) ELSE BREAK(s)

\* _Validate_RETURN_Clause: visit ORDER BY
RETURN_order_by(n, s) ==
    IF Present(n.order_by) THEN RETURN_end(Visit(n.order_by, s))
                           ELSE RETURN_end(s)

RECURSIVE Validate_RETURN_projections(_, _, _)
\* _Validate_RETURN_Clause: after the visit of a projection
RETURN_projection_visited(n, i, s) ==
    IF ErrorCtx_EncounteredError(s) THEN BREAK(s)
    ELSE Validate_RETURN_projections(n, i + 1, s)

\* _Validate_RETURN_Clause: visit the projections
Validate_RETURN_projections(n, i, s) ==
    IF i > Len(n.projections)
       THEN RETURN_order_by(n, RETURN_IntroduceAliases(n, 1, s))
       ELSE RETURN_projection_visited(n, i, Visit(n.projections[i], s))

RETURN_modifiers_checked(n, s) ==
    IF s.res = "AST_INVALID" THEN BREAK(s)
    ELSE Validate_RETURN_projections(n, 1, RETURN_CheckColumns(n, s))

\* _Validate_RETURN_Clause
Validate_RETURN_Clause(n, s) ==
    RETURN_modifiers_checked(n,
        Validate_LIMIT_SKIP_Modifiers(SetClause(s, n), n.limit, n.skip))

\* _Validate_DELETE_Clause
Validate_DELETE_Clause(n, start, s) ==
    IF ~start THEN CONTINUE(s)
    ELSE IF \E i \in 1..Len(n.exprs) :
               n.exprs[i].t \notin {"IDENTIFIER", "APPLY_OPERATOR",
                                    "APPLY_ALL_OPERATOR", "SUBSCRIPT_OPERATOR"}
            THEN BREAK(ErrorCtx_SetError(SetClause(s, n), "DeleteInvalidArguments"))
            ELSE RECURSE(SetClause(s, n))

\* _Validate_set_property
Validate_set_property(n, start, s) ==
    IF ~start THEN CONTINUE(s)
    ELSE IF n.property.exp.t # "IDENTIFIER"
            THEN BREAK(ErrorCtx_SetError(s, "SetLhsNonAlias"))
            ELSE RECURSE(s)

\* _Validate_SET_Clause
Validate_SET_Clause(n, start, s) ==
    IF ~start THEN CONTINUE(s) ELSE RECURSE(SetClause(s, n))

\* _Validate_MATCH_Clause
Validate_MATCH_Clause(n, start, s) ==
    IF ~start THEN CONTINUE(s) ELSE RECURSE(SetClause(s, n))

\* _Validate_MERGE_Clause
Validate_MERGE_Clause(n, start, s) ==
    IF ~start THEN CONTINUE(s) ELSE RECURSE(SetClause(s, n))

\* what _Validate_UNION_Clause does with the environment
UNION_ResetEnv(s) == SetEnv(raxNew(raxFree(s, s.def)), NewId(s))

\* _Validate_UNION_Clause
Validate_UNION_Clause(n, start, s) ==
    IF ~start THEN CONTINUE(s)
    ELSE IF s.union_all # NOT_DEFINED /\ s.union_all # n.all
            THEN BREAK(ErrorCtx_SetError(s, "UnionCombination"))
    ELSE RECURSE(UNION_ResetEnv(
             SetClause(IF s.union_all = NOT_DEFINED
                          THEN [s EXCEPT !.union_all = n.all] ELSE s, n)))

\* (variant: the alias is added without looking at the result of the insert)
UNWIND_alias_Mut(n, s) ==
    IF ErrorCtx_EncounteredError(s) THEN BREAK(s)
    ELSE CONTINUE(IdentifierAdd(s, n.alias, VNULL))
\* _Validate_UNWIND_Clause: introduce the alias
UNWIND_alias(n, s) ==
    IF ErrorCtx_EncounteredError(s) THEN BREAK(s)
    ELSE IF IdentifiersFind(s, n.alias) # raxNotFound
            THEN BREAK(ErrorCtx_SetError(IdentifierAdd(s, n.alias, VNULL),
                                         "VariableAlreadyDeclared"))
            ELSE CONTINUE(IdentifierAdd(s, n.alias, VNULL))

\* _Validate_UNWIND_Clause
Validate_UNWIND_Clause(n, start, s) ==
    IF ~start THEN CONTINUE(s)
    ELSE UNWIND_alias(n, Visit(n.exp, SetClause(s, n)))

\* _Validate_CREATE_Clause: introduce the new identifiers to the scope
RECURSIVE CREATE_Introduce(_, _, _)
CREATE_Introduce(new_identifiers, i, s) ==
    IF i > Len(new_identifiers) THEN CONTINUE(s)
    ELSE IF IdentifiersFind(s, new_identifiers[i][1]) # raxNotFound /\
            new_identifiers[i][2] = T_EDGE
       THEN BREAK(ErrorCtx_SetError(
                IdentifierAdd(s, new_identifiers[i][1], new_identifiers[i][2]),
                "VariableAlreadyDeclared"))
    ELSE CREATE_Introduce(new_identifiers, i + 1,
             IdentifierAdd(s, new_identifiers[i][1], new_identifiers[i][2]))

RECURSIVE Validate_CREATE_paths(_, _, _, _), Validate_CREATE_elems(_, _, _, _, _)
\* (variant: a new identifier stays in scope once its element was visited)
CREATE_elem_visited_Mut(n, i, j, new_identifiers, hide, s) ==
    IF ErrorCtx_EncounteredError(s) THEN BREAK(s)
    ELSE IF hide
       THEN Validate_CREATE_elems(n, i, j + 1,
                Append(new_identifiers,
                       <<n.pattern[i].elems[j].id,
                         IF (j - 1) % 2 = 0 THEN T_NODE ELSE T_EDGE>>), s)
       ELSE Validate_CREATE_elems(n, i, j + 1, new_identifiers, s)
\* _Validate_CREATE_Clause: after the visit of one element of a path
CREATE_elem_visited(n, i, j, new_identifiers, hide, s) ==
    IF ErrorCtx_EncounteredError(s) THEN BREAK(s)
    ELSE IF hide
       THEN Validate_CREATE_elems(n, i, j + 1,
                Append(new_identifiers,
                       <<n.pattern[i].elems[j].id,
                         IF (j - 1) % 2 = 0 THEN T_NODE ELSE T_EDGE>>),
                IdentifierRemove(s, n.pattern[i].elems[j].id))
       ELSE Validate_CREATE_elems(n, i, j + 1, new_identifiers, s)

\* _Validate_CREATE_Clause: the elements of one path
Validate_CREATE_elems(n, i, j, new_identifiers, s) ==
    IF j > Len(n.pattern[i].elems)
       THEN Validate_CREATE_paths(n, i + 1, new_identifiers, s)
       ELSE CREATE_elem_visited(n, i, j, new_identifiers,
                n.pattern[i].elems[j].id # NoName /\
                   IdentifiersFind(s, n.pattern[i].elems[j].id) = raxNotFound,
                Visit(n.pattern[i].elems[j], s))

\* _Validate_CREATE_Clause: after the check of the entities of a path
CREATE_path_checked(n, i, new_identifiers, s) ==
    IF s.res = "AST_INVALID" THEN BREAK(s)
    ELSE Validate_CREATE_elems(n, i, 1, new_identifiers, s)

\* _Validate_CREATE_Clause: the paths of the pattern
Validate_CREATE_paths(n, i, new_identifiers, s) ==
    IF i > Len(n.pattern) THEN CREATE_Introduce(new_identifiers, 1, s)
    ELSE CREATE_path_checked(n, i, new_identifiers,
                             Validate_CREATE_Entities(s, n.pattern[i]))

\* _Validate_CREATE_Clause
Validate_CREATE_Clause(n, s) == Validate_CREATE_paths(n, 1, <<>>, SetClause(s, n))

\* clauses allowed in the body of a FOREACH
ForeachBodyTypes == {"CREATE", "SET", "REMOVE", "MERGE", "DELETE", "FOREACH"}

RECURSIVE Validate_FOREACH_body(_, _, _), Validate_FOREACH_body_Mut(_, _, _)
\* _Validate_FOREACH_Clause: the loop over the body clauses
\* (variant: the clause is visited before its type is looked at)
Validate_FOREACH_body_Mut(n, i, s) ==
    IF i > Len(n.clauses) THEN s
    ELSE IF n.clauses[i].t \notin ForeachBodyTypes
            THEN ErrorCtx_SetError(Visit(n.clauses[i], s), "ForeachInvalidBody")
            ELSE Validate_FOREACH_body_Mut(n, i + 1, Visit(n.clauses[i], s))
Validate_FOREACH_body(n, i, s) ==
    IF i > Len(n.clauses) THEN s
    ELSE IF n.clauses[i].t \notin ForeachBodyTypes
            THEN ErrorCtx_SetError(s, "ForeachInvalidBody")
            ELSE Validate_FOREACH_body(n, i + 1, Visit(n.clauses[i], s))

\* _Validate_FOREACH_Clause: the environment the body is validated in
\* (variant: the body is validated in the original map itself)
FOREACH_ScopedEnv_Mut(s) == SetEnv([s EXCEPT !.nalloc = @ + 1], s.def)
FOREACH_ScopedEnv(s) == SetEnv(raxClone(s, s.def), NewId(s))

\* _Validate_FOREACH_Clause: reinstate the original environment
\* (variant: the scoped clone is not freed)
FOREACH_Restore_Mut(s, orig_env, scoped_env) == SetEnv(s, orig_env)
FOREACH_Restore(s, orig_env, scoped_env) ==
    raxFree(SetEnv(s, orig_env), scoped_env)

\* _Validate_FOREACH_Clause
Validate_FOREACH_Clause(n, s) ==
    BreakIfError(
        FOREACH_Restore(
            Validate_FOREACH_body(n, 1,
                IdentifierAdd(
                    Visit(n.exp, [FOREACH_ScopedEnv(s) EXCEPT !.clause = "FOREACH"]),
                    n.id, VNULL)),
            s.def, NewId(s)))

\* _ValidateSubqueryFirstWithClauseIdentifiers
ValidateSubqueryFirstWithClauseIdentifiers(root) ==
    ~TreeContainsType(root, "IDENTIFIER")

\* _ValidateCallInitialWith: the loop over the projections
RECURSIVE ValidateCallInitialWith_loop(_, _, _, _)
ValidateCallInitialWith_loop(with_clause, i, found_simple, found_non_simple) ==
    IF i > Len(with_clause.projections) THEN TRUE
    ELSE LET curr_proj == with_clause.projections[i]
             exp == curr_proj.exp
         IN IF exp.t = "IDENTIFIER"
               THEN IF curr_proj.alias # NoName /\ IsInternal(curr_proj.alias)
                       THEN ValidateCallInitialWith_loop(with_clause, i + 1,
                                found_simple, found_non_simple)
                    ELSE IF found_non_simple \/ curr_proj.alias # NoName
                       THEN FALSE
                    ELSE ValidateCallInitialWith_loop(with_clause, i + 1,
                                TRUE, found_non_simple)
               ELSE IF found_simple \/
                       ~ValidateSubqueryFirstWithClauseIdentifiers(exp)
                       THEN FALSE
                    ELSE ValidateCallInitialWith_loop(with_clause, i + 1,
                                found_simple, TRUE)

\* (variant: ORDER BY, SKIP, LIMIT and the predicate are not looked at)
ValidateCallInitialWith_Mut(with_clause) ==
    ValidateCallInitialWith_loop(with_clause, 1, FALSE, FALSE)
\* _ValidateCallInitialWith
ValidateCallInitialWith(with_clause) ==
    /\ ValidateCallInitialWith_loop(with_clause, 1, FALSE, FALSE)
    /\ ~Present(with_clause.skip)
    /\ ~Present(with_clause.limit)
    /\ ~Present(with_clause.order_by)
    /\ ~Present(with_clause.predicate)

\* _Validate_call_subquery: is this projection skipped when the returned
\* columns are merged into the outer environment
\* (variant: no projection is skipped)
IsArtificialProjection_Mut(proj) == FALSE
IsArtificialProjection(proj) ==
    /\ proj.alias # NoName
    /\ proj.exp.t = "IDENTIFIER"
    /\ IsInternal(proj.exp.name)

\* _Validate_call_subquery: merge the returned columns into the outer env
RECURSIVE call_subquery_merge(_, _, _)
call_subquery_merge(return_clause, i, s) ==
    IF i > Len(return_clause.projections) THEN CONTINUE(s)
    ELSE IF IsArtificialProjection(return_clause.projections[i])
       THEN call_subquery_merge(return_clause, i + 1, s)
    ELSE IF IdentifiersFind(s, ColumnName(return_clause.projections[i]))
               # raxNotFound
       THEN BREAK(ErrorCtx_SetError(s, "VariableAlreadyDeclaredInOuterScope"))
    ELSE call_subquery_merge(return_clause, i + 1,
             raxTryInsert(s, s.def, ColumnName(return_clause.projections[i]),
                          VNULL))

\* _Validate_call_subquery: after the loop over the body
call_subquery_returning(n, s) ==
    IF n.body[Len(n.body)].t = "RETURN"
       THEN call_subquery_merge(n.body[Len(n.body)], 1, s)
       ELSE CONTINUE(s)

\* (variant: the saved union flavour is not put back)
call_subquery_finish_Mut(n, in_env, union_all, s) ==
    call_subquery_returning(n, SetEnv(raxFree(s, s.def), in_env))
\* _Validate_call_subquery: the state and the environment are restored
call_subquery_finish(n, in_env, union_all, s) ==
    call_subquery_returning(n,
        SetEnv(raxFree([s EXCEPT !.union_all = union_all], s.def), in_env))

RECURSIVE Validate_call_subquery_loop(_, _, _, _, _, _)
\* (variant: any RETURN of the body sets ignore_identifiers)
call_subquery_visited_Mut(n, i, in_env, union_all, s) ==
    IF ErrorCtx_EncounteredError(s) THEN BREAK(raxFree(s, in_env))
    ELSE Validate_call_subquery_loop(n, i + 1, in_env, union_all,
             n.body[i].t = "UNION",
             IF n.body[i].t = "RETURN"
                THEN [s EXCEPT !.ignore_identifiers = TRUE] ELSE s)
\* _Validate_call_subquery: after the visit of a clause of the body
call_subquery_visited(n, i, in_env, union_all, s) ==
    IF ErrorCtx_EncounteredError(s) THEN BREAK(raxFree(s, in_env))
    ELSE Validate_call_subquery_loop(n, i + 1, in_env, union_all,
             n.body[i].t = "UNION",
             IF n.body[i].t = "RETURN" /\ n.body[i].include_existing
                THEN [s EXCEPT !.ignore_identifiers = TRUE] ELSE s)

\* _Validate_call_subquery: the input env is imported again after a UNION
call_subquery_reimport(s, in_env) ==
    SetEnv(raxClone(raxFree(s, s.def), in_env), NewId(s))

\* _Validate_call_subquery: the loop over the clauses of the body
Validate_call_subquery_loop(n, i, in_env, union_all, last_is_union, s) ==
    IF i > Len(n.body) THEN call_subquery_finish(n, in_env, union_all, s)
    ELSE IF last_is_union /\ n.body[i].t = "WITH"
       THEN IF ~ValidateCallInitialWith(n.body[i])
               THEN BREAK(ErrorCtx_SetError(
                        raxFree(call_subquery_reimport(s, in_env), in_env),
                        "CallSubqueryInvalidReferences"))
               ELSE call_subquery_visited(n, i, in_env, union_all,
                        Visit(n.body[i], call_subquery_reimport(s, in_env)))
       ELSE call_subquery_visited(n, i, in_env, union_all, Visit(n.body[i], s))

\* _Validate_call_subquery: the state is saved and reset, the body is walked
call_subquery_body(n, in_env, s) ==
    Validate_call_subquery_loop(n, 1, in_env, s.union_all, FALSE,
                                [s EXCEPT !.union_all = NOT_DEFINED])

\* (variant: a body without imports is validated in the outer environment)
call_subquery_imports_Mut(n, in_env, s) ==
    IF n.body[1].t = "WITH" /\ ~ValidateCallInitialWith(n.body[1])
       THEN BREAK(ErrorCtx_SetError(raxFree(s, in_env),
                                    "CallSubqueryInvalidReferences"))
    ELSE call_subquery_body(n, in_env, s)
\* _Validate_call_subquery: the imports
call_subquery_imports(n, in_env, s) ==
    IF n.body[1].t # "WITH"
       THEN call_subquery_body(n, in_env, NewEnv(raxFree(s, s.def)))
    ELSE IF ~ValidateCallInitialWith(n.body[1])
       THEN BREAK(ErrorCtx_SetError(raxFree(s, in_env),
                                    "CallSubqueryInvalidReferences"))
    ELSE call_subquery_body(n, in_env, s)

\* _Validate_call_subquery
Validate_call_subquery(n, s) ==
    call_subquery_imports(n, NewId(s), raxClone(SetClause(s, n), s.def))

\* _Validate_REMOVE_Clause
Validate_REMOVE_Clause(n, start, s) ==
    IF ~start THEN CONTINUE(s)
    ELSE IF \E i \in 1..Len(n.items) :
               /\ n.items[i].t = "REMOVE_PROPERTY"
               /\ n.items[i].property.exp.t # "IDENTIFIER"
            THEN BREAK(ErrorCtx_SetError(SetClause(s, n), "RemoveInvalidInput"))
            ELSE RECURSE(SetClause(s, n))

\* ------------------------------------------------------------------------
\* The visitor
\* ------------------------------------------------------------------------
UnsupportedTypes == {"START", "FILTER", "EXTRACT", "REMOVE_ITEM"}

\* validations_mapping: the handler registered for each node type
Dispatch(n, start, s) ==
    CASE n.t = "SET" -> Validate_SET_Clause(n, start, s)
      [] n.t = "MAP" -> Validate_map(n, s)
      [] n.t = "CALL" -> Validate_CALL_Clause(n, start, s)
      [] n.t = "WITH" -> Validate_WITH_Clause(n, s)
      [] n.t = "UNION" -> Validate_UNION_Clause(n, start, s)
      [] n.t = "MATCH" -> Validate_MATCH_Clause(n, start, s)
      [] n.t = "MERGE" -> Validate_MERGE_Clause(n, start, s)
      [] n.t = "RETURN" -> Validate_RETURN_Clause(n, s)
      [] n.t = "UNWIND" -> Validate_UNWIND_Clause(n, start, s)
      [] n.t = "CREATE" -> Validate_CREATE_Clause(n, s)
      [] n.t = "DELETE" -> Validate_DELETE_Clause(n, start, s)
      [] n.t = "REMOVE" -> Validate_REMOVE_Clause(n, start, s)
      [] n.t = "REDUCE" -> Validate_reduce(n, start, s)
      [] n.t = "FOREACH" -> Validate_FOREACH_Clause(n, s)
      [] n.t = "IDENTIFIER" -> Validate_identifier(n, start, s)
      [] n.t = "PROJECTION" -> Validate_projection(n, s)
      [] n.t = "NAMED_PATH" -> Validate_named_path(n, start, s)
      [] n.t = "REL_PATTERN" -> Validate_rel_pattern(n, start, s)
      [] n.t = "SET_PROPERTY" -> Validate_set_property(n, start, s)
      [] n.t = "NODE_PATTERN" -> Validate_node_pattern(n, start, s)
      [] n.t = "CALL_SUBQUERY" -> Validate_call_subquery(n, s)
      [] n.t = "APPLY_OPERATOR" -> Validate_apply_operator(n, start, s)
      [] n.t = "APPLY_ALL_OPERATOR" -> Validate_apply_all_operator(n, start, s)
      [] n.t = "LIST_COMPREHENSION" -> Validate_list_comprehension(n, s)
      [] n.t = "PATTERN_COMPREHENSION" -> Validate_pattern_comprehension(n, s)
      [] n.t = "BINARY_OPERATOR" -> visit_binary_op(n, s)
      [] n.t \in UnsupportedTypes -> visit_break(n, s)
      [] OTHER -> default_visit(n, s)

\* node types whose handler temporarily changes the environment
ScopingTypes == {"FOREACH", "LIST_COMPREHENSION", "PATTERN_COMPREHENSION",
                 "REDUCE", "CALL_SUBQUERY"}

\* node types whose handler replaces the environment or binds in stages
ObservedTypes ==
    ScopingTypes \cup {"UNION", "WITH", "CREATE", "UNWIND", "IDENTIFIER",
                     "APPLY_OPERATOR", "APPLY_ALL_OPERATOR", "CALL", "RETURN"}

\* what one run of a handler did to the validation context
Observation(n, s, s1) ==
    [n |-> n, pre |-> EnvOf(s), post |-> EnvOf(s1), strat |-> s1.strat,
     preclause |-> s.clause, postclause |-> s1.clause,
     union_pre |-> s.union_all, union_post |-> s1.union_all,
     ignore |-> s.ignore_identifiers,
     errpre |-> ErrorCtx_EncounteredError(s),
     errpost |-> ErrorCtx_EncounteredError(s1),
     restored |-> s1.def = s.def,
     scoped_live |-> NewId(s) \in DOMAIN s1.heap]

\* one call of a handler of the mapping
Handler(n, start, s) ==
    LET s1 == Dispatch(n, start, s)
    IN IF start /\ n.t \in ObservedTypes
          THEN [s1 EXCEPT !.obs = @ \cup {Observation(n, s, s1)}]
          ELSE s1

\* AST_Visitor_visit on each node of a list, until the walk is broken
VisitAll(nodes, i, s) ==
    IF i > Len(nodes) THEN [s EXCEPT !.brk = FALSE]
    ELSE LET s1 == Visit(nodes[i], s)
         IN IF s1.brk THEN s1 ELSE VisitAll(nodes, i + 1, s1)

\* clauses whose bindings are made by the handlers of their patterns: what
\* the whole visit of the clause did is recorded
VisitedTypes == {"MATCH", "MERGE"}
Visited(n, s, s1) ==
    IF n.t \in VisitedTypes
       THEN [s1 EXCEPT !.obs = @ \cup {Observation(n, s, s1)}]
       ELSE s1

\* AST_Visitor_visit: start call, the children on RECURSE, then the end call
Visit(n, s) == Visited(n, s, VisitNode(n, s))

VisitNode(n, s) ==
    LET s0 == [s EXCEPT !.late = @ \/ ErrorCtx_EncounteredError(s),
                        !.uaf = @ \/ s.def \notin DOMAIN s.heap]
        s1 == Handler(n, TRUE, s0)
    IN IF s1.strat = "BREAK" THEN [s1 EXCEPT !.brk = TRUE]
       ELSE IF s1.strat = "CONTINUE" THEN [s1 EXCEPT !.brk = FALSE]
       ELSE LET s2 == VisitAll(Children(n), 1, s1)
            IN IF s2.brk THEN s2
               ELSE LET s3 == Handler(n, FALSE, s2)
                    IN [s3 EXCEPT !.brk = (s3.strat = "BREAK")]

\* ------------------------------------------------------------------------
\* _ValidateScopes: the walk over the clauses of a query
\* ------------------------------------------------------------------------
MaxClauses == 2     \* clauses of the query body that are visited

\* clause constructors
Match(pattern, predicate) ==
    [t |-> "MATCH", optional |-> FALSE, pattern |-> pattern,
     predicate |-> predicate]
OptionalMatch(pattern, predicate) ==
    [t |-> "MATCH", optional |-> TRUE, pattern |-> pattern,
     predicate |-> predicate]
Create(pattern) == [t |-> "CREATE", pattern |-> pattern]
Merge(path) == [t |-> "MERGE", path |-> path]
PropOp(exp) == [t |-> "PROPERTY_OPERATOR", exp |-> exp]
SetProperty(property, exp) ==
    [t |-> "SET_PROPERTY", property |-> property, exp |-> exp]
Set(items) == [t |-> "SET", items |-> items]
Delete(exprs) == [t |-> "DELETE", exprs |-> exprs]
Remove(items) == [t |-> "REMOVE", items |-> items]
RemoveProperty(property) == [t |-> "REMOVE_PROPERTY", property |-> property]
Unwind(exp, alias) == [t |-> "UNWIND", exp |-> exp, alias |-> alias]
Foreach(id, exp, clauses) ==
    [t |-> "FOREACH", id |-> id, exp |-> exp, clauses |-> clauses]
With(star, projections, predicate, order_by, skip, limit) ==
    [t |-> "WITH", include_existing |-> star, projections |-> projections,
     predicate |-> predicate, order_by |-> order_by, skip |-> skip,
     limit |-> limit]
Return(star, projections, order_by, skip, limit) ==
    [t |-> "RETURN", include_existing |-> star, projections |-> projections,
     order_by |-> order_by, skip |-> skip, limit |-> limit]
OrderBy(items) == [t |-> "ORDER_BY", items |-> items]
Union(all) == [t |-> "UNION", all |-> all]
Call(proc, args, projections) ==
    [t |-> "CALL", proc |-> proc, args |-> args, projections |-> projections]
CallSubquery(body) == [t |-> "CALL_SUBQUERY", body |-> body]
BinaryOp(op, l, r) == [t |-> "BINARY_OPERATOR", op |-> op, l |-> l, r |-> r]

\* expressions the clauses are built from
Ia == Ident(nA)
Ib == Ident(nB)
Iat == Ident(nAt)
PathAB == Path(<<NodePat(nA, 0, NoNode), RelPat(NoName, 0, "OUTBOUND", NoNode, NoNode),
                 NodePat(nB, 0, NoNode)>>)
ScopingExprs ==
    {ListCompr(nB, IntLit, NoNode, Ib),
     ListCompr(nB, IntLit, NoNode, Ia),
     ListCompr(nB, PatCompr(NoName, PathAB, NoNode, IntLit), NoNode, NoNode),
     PatCompr(NoName, PathAB, NoNode, Ib),
     PatCompr(nB, Path(<<NodePat(nA, 0, NoNode)>>), NoNode, Ib),
     PatCompr(nB, Path(<<NodePat(nA, 0, NoNode)>>), NoNode, Iat),
     Reduce(nA, IntLit, nB, IntLit, Ia),
     Reduce(nA, IntLit, nB, IntLit, Iat),
     Reduce(nA, IntLit, nB, PatCompr(NoName, PathAB, NoNode, IntLit), Ia)}
PlainExprs ==
    {Ia, Ib, IntLit, Apply("abs", <<Ia>>), Apply("count", <<Ia>>),
     Apply("nofunc", <<>>), ApplyAll("count", FALSE), ApplyAll("abs", FALSE),
     BinaryOp("PLUS", Ia, IntLit), BinaryOp("REGEX", Ia, IntLit),
     Map(<<Ia, IntLit>>), [t |-> "FILTER"]}
Exprs == PlainExprs \cup ScopingExprs

\* patterns
Rel(id, nreltypes, dir, varlength) == RelPat(id, nreltypes, dir, varlength, NoNode)
Paths ==
    {Path(<<NodePat(nA, 0, NoNode)>>),
     Path(<<NodePat(nB, 1, Map(<<Ia>>))>>),
     Path(<<NodePat(nA, 0, NoNode), Rel(nB, 1, "OUTBOUND", NoNode),
            NodePat(NoName, 0, NoNode)>>),
     Path(<<NodePat(nA, 0, NoNode), Rel(NoName, 0, "BIDIRECTIONAL", Range(2, 1)),
            NodePat(nB, 0, NoNode)>>),
     Path(<<NodePat(nB, 0, NoNode), Rel(nA, 1, "OUTBOUND", Range(1, NULL_INT)),
            NodePat(nB, 0, IntLit)>>),
     Path(<<NodePat(NoName, 0, NoNode), Rel(nA, 1, "OUTBOUND", NoNode),
            NodePat(nA, 0, NoNode)>>),
     Path(<<NodePat(nB, 0, NoNode)>>)}

\* the clauses of the updating kinds
UpdatingClauses ==
    {Create(<<p>>) : p \in Paths}
    \cup {Create(<<Path(<<NodePat(nA, 0, NoNode)>>),
                   Path(<<NodePat(nB, 0, NoNode), Rel(nA, 1, "OUTBOUND", NoNode),
                          NodePat(nB, 0, NoNode)>>)>>)}
    \cup {Create(<<Path(<<NodePat(nA, 0, Map(<<IntLit>>))>>),
                   Path(<<NodePat(nB, 0, Map(<<Ia>>))>>)>>),
          Create(<<Path(<<NodePat(nA, 0, NoNode),
                          RelPat(nB, 1, "OUTBOUND", NoNode, Map(<<Ia>>)),
                          NodePat(NoName, 0, Map(<<Ib>>))>>)>>),
          Create(<<Path(<<NodePat(nA, 0, Map(<<Ia>>))>>)>>)}
    \cup {Merge(p) : p \in Paths}
    \cup {Merge(Path(<<NodePat(NoName, 0, NoNode), Rel(nA, 0, "OUTBOUND", NoNode),
                        NodePat(nB, 1, NoNode)>>))}
    \cup {Set(<<SetProperty(PropOp(e), Ib)>>) : e \in {Ia, IntLit}}
    \cup {Delete(<<e>>) : e \in {Ia, Ib, IntLit}}
    \cup {Remove(<<RemoveProperty(PropOp(e))>>) : e \in {Ia, IntLit}}

PathNew == Path(<<NodePat(nB, 0, NoNode), Rel(NoName, 1, "OUTBOUND", NoNode),
                  NodePat(nAt, 0, NoNode)>>)
ForeachBodies ==
    {<<c>> : c \in {Create(<<Path(<<NodePat(nB, 0, NoNode)>>)>>),
                    Create(<<PathNew>>),
                    Create(<<Path(<<NodePat(nA, 0, NoNode)>>)>>),
                    Merge(PathAB),
                    Set(<<SetProperty(PropOp(Ib), Ia)>>),
                    Delete(<<IntLit>>),
                    Match(<<PathAB>>, NoNode),
                    Foreach(nB, Ia, <<Create(<<PathAB>>)>>)}}
    \cup {<<Delete(<<Ib>>), Create(<<Path(<<NodePat(nB, 0, NoNode)>>)>>)>>,
          <<Set(<<SetProperty(PropOp(Ib), Ia)>>), Match(<<PathAB>>, NoNode),
            Create(<<PathNew>>)>>}

ForeachClauses ==
    {Foreach(id, e, b) : id \in {nA, nB},
                         e \in {Ia, IntLit, ListCompr(nB, IntLit, NoNode, Ib)},
                         b \in ForeachBodies}

Projections ==
    {<<Projection(Ia, NoName)>>,
     <<Projection(Ia, nB)>>,
     <<Projection(IntLit, nB)>>,
     <<Projection(IntLit, NoName)>>,
     <<Projection(Iat, nB)>>,
     <<Projection(Ia, nAt)>>,
     <<Projection(Ia, NoName), Projection(Ib, nA)>>,
     <<Projection(Ia, nAt), Projection(Ib, nAt)>>,
     <<Projection(IntLit, nA), Projection(Apply("count", <<Ia>>), nB)>>}
    \cup {<<Projection(e, nB)>> : e \in ScopingExprs}

\* reduce with an aggregate in its eval or init expression, and followed by
\* an aggregate in the same clause
ReduceProjections ==
    {<<Projection(Reduce(nA, IntLit, nB, IntLit, ApplyAll("count", FALSE)), nB)>>,
     <<Projection(Reduce(nA, IntLit, nB, IntLit, Apply("count", <<IntLit>>)), nB)>>,
     <<Projection(Reduce(nA, Apply("count", <<IntLit>>), nB, IntLit, IntLit), nB)>>,
     <<Projection(Reduce(nA, IntLit, nB, IntLit, Ia), nA),
       Projection(Apply("count", <<IntLit>>), nB)>>}

WithClauses ==
    {With(FALSE, p, NoNode, NoNode, NoNode, NoNode) :
        p \in Projections \cup ReduceProjections}
    \cup {With(TRUE, p, NoNode, NoNode, NoNode, NoNode) : p \in Projections}
    \cup {With(TRUE, <<>>, NoNode, NoNode, NoNode, NoNode),
          With(TRUE, <<Projection(IntLit, nB)>>, Ib, NoNode, NoNode, NoNode),
          With(FALSE, <<Projection(Ia, nB)>>, Ia, OrderBy(<<Ib>>), IntLit, IntLit),
          With(FALSE, <<Projection(Ia, nB)>>, NoNode, OrderBy(<<Ia>>), NoNode, NoNode),
          With(FALSE, <<Projection(Ia, nB)>>, NoNode, NoNode, Ia, NoNode),
          With(FALSE, <<Projection(Ia, nB)>>, NoNode, NoNode, NoNode, Ia)}

ReturnProjections == {p \in Projections :
                         \A i \in 1..Len(p) : p[i].alias # NoName \/
                                              p[i].exp.t = "IDENTIFIER"}
ReturnClauses ==
    {Return(FALSE, p, NoNode, NoNode, NoNode) :
        p \in ReturnProjections \cup ReduceProjections}
    \cup {Return(TRUE, <<>>, NoNode, NoNode, NoNode),
          Return(FALSE, <<Projection(Ia, nB)>>, OrderBy(<<Ib>>), IntLit, IntLit),
          Return(FALSE, <<Projection(Ia, nB)>>, OrderBy(<<Ia>>), NoNode, NoNode),
          Return(FALSE, <<Projection(Ia, nB)>>, NoNode, Ia, NoNode),
          Return(FALSE, <<Projection(Ia, nA), Projection(Ib, nA)>>, NoNode, NoNode,
                 NoNode),
          Return(FALSE, <<Projection(Reduce(nA, Ia, nB, IntLit, IntLit), nB)>>,
                 NoNode, NoNode, NoNode)}

UnwindClauses ==
    {Unwind(e, al) : e \in {IntLit, Ia, ListCompr(nB, IntLit, NoNode, Ib)},
                     al \in {nA, nB}}
    \cup {Unwind(e, nB) : e \in {ApplyAll("count", FALSE),
                                  Apply("count", <<IntLit>>),
                                  Apply("nofunc", <<IntLit>>),
                                  Apply("abs", <<IntLit>>)}}

MatchClauses ==
    {Match(<<p>>, NoNode) : p \in Paths}
    \cup {Match(<<Path(<<NodePat(nA, 0, NoNode)>>)>>, e) : e \in {Ia, Ib}}
    \cup {Match(<<[t |-> "NAMED_PATH", id |-> nB,
                   path |-> Path(<<NodePat(nA, 0, NoNode)>>)]>>, NoNode)}

CallClauses ==
    {Call("labels", <<>>, <<Projection(Ia, NoName)>>),
     Call("labels", <<>>, <<Projection(Ia, nB)>>),
     Call("labels", <<>>, <<Projection(Ia, NoName), Projection(Ia, nB)>>),
     Call("labels", <<IntLit>>, <<>>),
     Call("labels", <<>>, <<Projection(Iat, NoName)>>),
     Call("vari", <<Ia, IntLit>>, <<Projection(Ia, NoName)>>),
     Call("noproc", <<>>, <<>>),
     Call("noproc", <<IntLit>>, <<Projection(Iat, NoName)>>),
     Call("labels", <<IntLit>>, <<Projection(Iat, NoName)>>),
     Call("labels", <<>>, <<Projection(Ia, NoName), Projection(Ib, NoName)>>),
     Call("labels", <<>>, <<Projection(Iat, NoName), Projection(Iat, nB)>>),
     Call("vari", <<>>, <<Projection(Ib, NoName)>>)}

\* bodies of CALL {} subqueries
W0(p) == With(FALSE, p, NoNode, NoNode, NoNode, NoNode)
R0(p) == Return(FALSE, p, NoNode, NoNode, NoNode)
SubqueryBodies ==
    {<<R0(<<Projection(IntLit, nB)>>)>>,
     <<R0(<<Projection(Ib, nA)>>)>>,
     <<R0(<<Projection(IntLit, nA), Projection(IntLit, nB)>>)>>,
     <<Return(TRUE, <<>>, NoNode, NoNode, NoNode)>>,
     <<W0(<<Projection(Ia, NoName)>>), R0(<<Projection(Ia, nB)>>)>>,
     <<W0(<<Projection(Ia, nAt)>>), R0(<<Projection(Iat, nB)>>)>>,
     <<W0(<<Projection(Ia, nB)>>), R0(<<Projection(Ib, nB)>>)>>,
     <<W0(<<Projection(BinaryOp("PLUS", Ia, IntLit), nB)>>),
       R0(<<Projection(Ib, nB)>>)>>,
     <<W0(<<Projection(IntLit, nA)>>), Unwind(Ia, nB), R0(<<Projection(Ib, NoName)>>)>>,
     <<Match(<<PathAB>>, NoNode), R0(<<Projection(Ia, nB)>>)>>,
     <<Match(<<Path(<<NodePat(nA, 0, NoNode)>>)>>, NoNode),
       R0(<<Projection(Ia, NoName)>>)>>,
     <<Unwind(IntLit, nB), Create(<<Path(<<NodePat(nA, 0, NoNode)>>)>>)>>,
     <<W0(<<Projection(Ia, NoName)>>), Foreach(nB, Ia, <<Delete(<<Ia>>)>>)>>,
     <<R0(<<Projection(IntLit, nB)>>), Union(REGULAR), R0(<<Projection(IntLit, nB)>>)>>,
     <<W0(<<Projection(Ia, NoName)>>), R0(<<Projection(Ia, nB)>>), Union(ALL),
       W0(<<Projection(Ia, NoName)>>), R0(<<Projection(Ia, nB)>>)>>,
     <<R0(<<Projection(IntLit, nB)>>), Union(ALL),
       W0(<<Projection(Ia, nB)>>), R0(<<Projection(Ib, nB)>>)>>,
     <<R0(<<Projection(IntLit, nB)>>), Union(ALL), R0(<<Projection(IntLit, nB)>>),
       Union(REGULAR), R0(<<Projection(IntLit, nB)>>)>>,
     <<R0(<<Projection(IntLit, nB)>>), Union(ALL), R0(<<Projection(IntLit, nB)>>)>>,
     <<With(FALSE, <<Projection(Ia, NoName)>>, NoNode, NoNode, NoNode, IntLit),
       R0(<<Projection(Ia, nB)>>)>>,
     <<With(FALSE, <<Projection(Ia, NoName)>>, Ia, NoNode, NoNode, NoNode),
       R0(<<Projection(Ia, nB)>>)>>,
     <<W0(<<Projection(Ia, NoName), Projection(IntLit, nB)>>),
       R0(<<Projection(Ib, nB)>>)>>,
     <<W0(<<Projection(IntLit, nB), Projection(Ia, NoName)>>),
       R0(<<Projection(Ib, nB)>>)>>,
     <<W0(<<Projection(Ia, nAt), Projection(IntLit, nB)>>),
       R0(<<Projection(Ib, nB)>>)>>,
     <<CallSubquery(<<R0(<<Projection(IntLit, nA)>>)>>), R0(<<Projection(Ia, nB)>>)>>,
     <<CallSubquery(<<R0(<<Projection(Ib, nA)>>)>>), R0(<<Projection(Ia, nB)>>)>>,
     <<CallSubquery(<<Return(TRUE, <<>>, NoNode, NoNode, NoNode)>>),
       R0(<<Projection(Ia, nB)>>)>>}

SubqueryClauses == {CallSubquery(b) : b \in SubqueryBodies}

\* validations_ctx, the maps and the error slot before _ValidateScopes runs
NoCtx ==
    [heap |-> <<>>, nalloc |-> 0, dbl_free |-> FALSE, uaf |-> FALSE,
     leak |-> FALSE, def |-> 0, clause |-> "STATEMENT",
     union_all |-> NOT_DEFINED, ignore_identifiers |-> FALSE,
     err |-> "none", nerr |-> 0, late |-> FALSE,
     strat |-> "CONTINUE", res |-> "AST_VALID", brk |-> FALSE, obs |-> {}]

InitScopes ==
    /\ vs = NoCtx
    /\ vpc = "start"
    /\ vn = 0

\* between two clauses the context map is the only live map; addresses are
\* abstract, so it is renamed to 1; any other map still live has leaked
Rebase(s) ==
    IF s.def \in DOMAIN s.heap
       THEN [s EXCEPT !.heap = (1 :> s.heap[s.def]), !.def = 1, !.nalloc = 1,
                      !.leak = @ \/ DOMAIN s.heap # {s.def}]
       ELSE [s EXCEPT !.heap = <<>>, !.def = 0, !.nalloc = 1,
                      !.leak = @ \/ DOMAIN s.heap # {}]

\* _ValidateScopes: the context is created
ValidateScopes_Begin ==
    /\ vpc = "start"
    /\ vs' = [SetEnv(raxNew(vs), NewId(vs)) EXCEPT !.union_all = NOT_DEFINED,
                                                   !.ignore_identifiers = FALSE]
    /\ vpc' = "visit"
    /\ UNCHANGED <<vn, astVars, parseVars, queryVars>>

\* AST_Visitor_visit(ast->root): the visit of the next clause of the query
VisitClause(c) ==
    /\ vpc = "visit"
    /\ vn < MaxClauses
    /\ LET s1 == Visit(c, [vs EXCEPT !.obs = {}])
       IN /\ vs' = Rebase(s1)
          /\ vpc' = IF s1.brk THEN "cleanup" ELSE "visit"
    /\ vn' = vn + 1
    /\ UNCHANGED <<astVars, parseVars, queryVars>>

Visit_MATCH == \E c \in MatchClauses : VisitClause(c)
Visit_Updating == \E c \in UpdatingClauses : VisitClause(c)
Visit_UNWIND == \E c \in UnwindClauses : VisitClause(c)
Visit_FOREACH == \E c \in ForeachClauses : VisitClause(c)
Visit_WITH == \E c \in WithClauses : VisitClause(c)
Visit_RETURN == \E c \in ReturnClauses : VisitClause(c)
Visit_UNION == \E all \in {REGULAR, ALL} : VisitClause(Union(all))
Visit_CALL == \E c \in CallClauses : VisitClause(c)
Visit_CALL_SUBQUERY == \E c \in SubqueryClauses : VisitClause(c)

\* _ValidateScopes: cleanup once the walk has ended or was broken
ValidateScopes_Cleanup ==
    /\ vpc \in {"visit", "cleanup"}
    /\ vn > 0
    /\ vs' = raxFree(vs, vs.def)
    /\ vpc' = "done"
    /\ UNCHANGED <<vn, astVars, parseVars, queryVars>>

NextScopes ==
    \/ ValidateScopes_Begin
    \/ Visit_MATCH
    \/ Visit_Updating
    \/ Visit_UNWIND
    \/ Visit_FOREACH
    \/ Visit_WITH
    \/ Visit_RETURN
    \/ Visit_UNION
    \/ Visit_CALL
    \/ Visit_CALL_SUBQUERY
    \/ ValidateScopes_Cleanup

\* ------------------------------------------------------------------------
\* parse_query (ast.c)
\* ------------------------------------------------------------------------
MaxQueryLen == 3      \* characters of the query text
MaxRoots == 2         \* roots of a parse-result
MaxParseErrors == 1   \* errors reported by the parser

\* the query text: ';' and any other character
Chars == {"q", ";"}
Queries == UNION {[1..k -> Chars] : k \in 0..MaxQueryLen}

\* root types of a parse-result
CommentTypes == {"LINE_COMMENT", "BLOCK_COMMENT", "COMMENT"}
RootTypes == CommentTypes \cup {"STATEMENT", "COMMAND"}

\* body types of a statement
BodyTypes == {"QUERY", "CONSTRAINT", "INDEX"}

\* what cypher_fparse may hand back: no result, or a parse-result
NoResult ==
    [t |-> "NULL", eof |-> FALSE, nerrors |-> 0, roots |-> <<>>]
ParseResults ==
    {NoResult} \cup
    [t : {"RESULT"}, eof : BOOLEAN, nerrors : 0..MaxParseErrors,
     roots : UNION {[1..k -> RootTypes] : k \in 0..MaxRoots}]

\* errors the validation of a statement may record
ValidationErrors == {"none", "NotDefined", "UnionCombination"}

\* parse_query has not been called
NoParse ==
    [pc |-> "idle", query |-> <<>>, len |-> 0, parsed |-> NoResult,
     index |-> NULL_INT, ret |-> "none", nfreed |-> 0, vlog |-> <<>>,
     rewrites |-> <<>>, rerun_validation |-> FALSE,
     res |-> "AST_VALID", err |-> "none", nerr |-> 0]

InitParse == pq = NoParse

\* remove trailing semicolons
RECURSIVE StripSemicolons(_, _)
StripSemicolons(query, len) ==
    IF len > 0 /\ query[len] = ";"
       THEN StripSemicolons(query, len - 1)
       ELSE len

\* AST_ContainsErrors
AST_ContainsErrors(result) == result.nerrors > 0

\* AST_Validate_ParseResultRoot: the index of the first statement root
RECURSIVE AST_Validate_ParseResultRoot(_, _, _)
AST_Validate_ParseResultRoot(s, roots, i) ==
    IF i > Len(roots)
       THEN IF Len(roots) = 0
               THEN AST_INVALID(ErrorCtx_SetError(s, "EmptyQuery"))
               ELSE AST_INVALID(s)
       ELSE IF roots[i] \in CommentTypes
               THEN AST_Validate_ParseResultRoot(s, roots, i + 1)
               ELSE IF roots[i] # "STATEMENT"
                       THEN AST_INVALID(ErrorCtx_SetError(s, "UnsupportedQueryType"))
                       ELSE AST_VALID([s EXCEPT !.index = i])

\* one run of the validation has ended with `res`
Validated(s, res) == [s EXCEPT !.vlog = Append(@, res), !.res = res]

\* AST_Validate_Query: `found` is the error its checks come across
AST_Validate_Query(s, body, found) ==
    IF body = "CONSTRAINT"
       THEN Validated(ErrorCtx_SetError(s, "InvalidConstraintCommand"),
                      "AST_INVALID")
       ELSE IF found = "none"
               THEN Validated(s, "AST_VALID")
               ELSE Validated(ErrorCtx_SetError(s, found), "AST_INVALID")

\* AST_ReportErrors
AST_ReportErrors(s) == ErrorCtx_SetError(s, "ParserError")

\* parse_result_free: releases a parse-result that is not NULL
parse_result_free(s) ==
    IF s.parsed.t # "NULL" THEN [s EXCEPT !.nfreed = @ + 1] ELSE s

ReturnNull(s) == [s EXCEPT !.pc = "done", !.ret = "NULL"]
ReturnResult(s) == [s EXCEPT !.pc = "done", !.ret = "result"]

\* the rewrites of the query body; each reports whether it changed the tree
AST_RewriteSameClauses(s, changed) ==
    [s EXCEPT !.rewrites = Append(@, "SameClauses"),
              !.rerun_validation = changed]
AST_RewriteCallSubquery(s, changed) ==
    [s EXCEPT !.rewrites = Append(@, "CallSubquery"),
              !.rerun_validation = @ \/ changed]
AST_RewriteStarProjections(s, changed) ==
    [s EXCEPT !.rewrites = Append(@, "StarProjections"),
              !.rerun_validation = @ \/ changed]

\* parse_query: the outcome of the second validation
(* variant: the parse-result is not freed when the second validation fails *)
parse_query_revalidated_Mut(s) ==
    IF s.res # "AST_VALID" THEN ReturnNull(s) ELSE ReturnResult(s)
parse_query_revalidated(s) ==
    IF s.res # "AST_VALID"
       THEN ReturnNull(parse_result_free(s))
       ELSE ReturnResult(s)

\* parse_query: validation runs again only if there has been a rewrite
(* variant: the rewritten query is returned without a second validation *)
parse_query_rewritten_Mut(s, body, found) == ReturnResult(s)
parse_query_rewritten(s, body, found) ==
    IF s.rerun_validation
       THEN parse_query_revalidated(AST_Validate_Query(s, body, found))
       ELSE ReturnResult(s)

\* parse_query: the three rewrites of an accepted query
parse_query_rewrite(s, body, changed, found) ==
    IF s.res # "AST_VALID"
       THEN ReturnNull(parse_result_free(s))
       ELSE parse_query_rewritten(
                AST_RewriteStarProjections(
                    AST_RewriteCallSubquery(
                        AST_RewriteSameClauses(s, changed[1]), changed[2]),
                    changed[3]),
                body, found)

\* parse_query: the root has been looked up
parse_query_root(s, body, found, changed, found2) ==
    IF s.res = "AST_INVALID"
       THEN ReturnNull(parse_result_free(s))
       ELSE parse_query_rewrite(AST_Validate_Query(s, body, found), body,
                                changed, found2)

\* parse_query: the parser has handed back `result`
parse_query_parsed(s, result, body, found, changed, found2) ==
    IF result.t = "NULL"
       THEN ReturnNull(s)
       ELSE IF ~result.eof
               THEN ReturnNull(parse_result_free(
                        ErrorCtx_SetError(s, "QueryWithMultipleStatements")))
               ELSE IF AST_ContainsErrors(result)
                       THEN ReturnNull(parse_result_free(AST_ReportErrors(s)))
                       ELSE parse_query_root(
                                AST_Validate_ParseResultRoot(s, result.roots, 1),
                                body, found, changed, found2)

\* parse_query: the text without its trailing semicolons
parse_query_stripped(s, result, body, found, changed, found2) ==
    IF s.len = 0
       THEN ReturnNull(s)
       ELSE parse_query_parsed([s EXCEPT !.parsed = result], result, body,
                               found, changed, found2)

parse_query(s, query, result, body, found, changed, found2) ==
    parse_query_stripped(
        [s EXCEPT !.query = query,
                  !.len = StripSemicolons(query, Len(query))],
        result, body, found, changed, found2)

\* a call of parse_query; the error slot is clear on entry; changed[i] is
\* what the i-th rewrite reports
ParseQuery ==
    /\ pq.pc = "idle"
    /\ \E query \in Queries, result \in ParseResults, body \in BodyTypes,
          found \in ValidationErrors, changed \in [1..3 -> BOOLEAN],
          found2 \in ValidationErrors :
          pq' = parse_query(pq, query, result, body, found, changed, found2)
    /\ UNCHANGED <<astVars, scopeVars, queryVars>>

NextParse == ParseQuery

\* ------------------------------------------------------------------------
\* Specifications
\* ------------------------------------------------------------------------
\* ------------------------------------------------------------------------
\* AST_Validate_Query: the checks of the clause sequence (ast_validations.c)
\* ------------------------------------------------------------------------
MaxSeqLen == 3      \* clauses of an enumerated query body

\* the query body has not been handed to AST_Validate_Query
NoQuery ==
    [pc |-> "idle", query |-> <<>>, res |-> "AST_VALID", err |-> "none",
     nerr |-> 0]

InitQuery == qv = NoQuery

\* cypher_ast_query_get_clause(root, nclauses - 1)
LastOf(root) == root[Len(root)]

\* (variant: REMOVE may not end a query)
TerminalTypes_Mut ==
    {"RETURN", "CREATE", "MERGE", "DELETE", "SET", "CALL", "CALL_SUBQUERY",
     "FOREACH"}
\* clause types a query may end with
TerminalTypes ==
    {"RETURN", "CREATE", "MERGE", "DELETE", "SET", "CALL", "CALL_SUBQUERY",
     "REMOVE", "FOREACH"}

RECURSIVE ValidateQueryTermination(_, _)
RECURSIVE QueryTermination_loop(_, _, _, _)

\* _ValidateQueryTermination: the embedded CALL {} at position i was checked
QueryTermination_subquery(s, root, i) ==
    IF s.res # "AST_VALID"
       THEN AST_INVALID(s)
       ELSE QueryTermination_loop(s, root, i + 1, FALSE)

\* (variant: the clause that follows a RETURN is not looked at)
QueryTermination_loop_Mut(s, root, i, last_was_return) ==
    IF i > Len(root)
       THEN AST_VALID(s)
       ELSE IF root[i].t = "CALL_SUBQUERY"
               THEN QueryTermination_subquery(
                        ValidateQueryTermination(s, root[i].body), root, i)
               ELSE QueryTermination_loop(s, root, i + 1, root[i].t = "RETURN")
\* _ValidateQueryTermination: the loop over the clauses
QueryTermination_loop(s, root, i, last_was_return) ==
    IF i > Len(root)
       THEN AST_VALID(s)
       ELSE IF root[i].t # "UNION" /\ last_was_return
               THEN AST_INVALID(
                        ErrorCtx_SetError(s, "UnexpectedClauseFollowingReturn"))
               ELSE IF root[i].t = "RETURN"
                       THEN QueryTermination_loop(s, root, i + 1, TRUE)
                       ELSE IF root[i].t = "CALL_SUBQUERY"
                               THEN QueryTermination_subquery(
                                        ValidateQueryTermination(s, root[i].body),
                                        root, i)
                               ELSE QueryTermination_loop(s, root, i + 1, FALSE)

\* _ValidateQueryTermination
ValidateQueryTermination(s, root) ==
    IF LastOf(root).t \notin TerminalTypes
       THEN AST_INVALID(ErrorCtx_SetError(s, "InvalidLastClause"))
       ELSE IF /\ LastOf(root).t = "CALL_SUBQUERY"
               /\ LastOf(LastOf(root).body).t = "RETURN"
               THEN AST_INVALID(ErrorCtx_SetError(s, "InvalidLastClause"))
               ELSE QueryTermination_loop(s, root, 1, FALSE)

\* _ValidateQuerySequence: the checks of the first clause
QuerySequence_start(s, root) ==
    IF s.res # "AST_VALID"
       THEN AST_INVALID(s)
       ELSE IF root[1].t \in {"WITH", "RETURN"} /\ root[1].include_existing
               THEN AST_INVALID(ErrorCtx_SetError(s, "QueryCannotBeginWith"))
               ELSE AST_VALID(s)

\* _ValidateQuerySequence
ValidateQuerySequence(s, root) ==
    QuerySequence_start(ValidateQueryTermination(s, root), root)

\* (variant: FOREACH does not count as an updating clause)
UPDATING_CALUSE_Mut(type) ==
    type \in {"CREATE", "MERGE", "DELETE", "SET", "REMOVE"}
\* UPDATING_CALUSE
UPDATING_CALUSE(type) ==
    type \in {"CREATE", "MERGE", "DELETE", "SET", "REMOVE", "FOREACH"}

\* clause types that read the graph
ReadingTypes == {"MATCH", "UNWIND", "CALL", "CALL_SUBQUERY"}

RECURSIVE ValidateClauseOrder(_, _)
RECURSIVE ClauseOrder_loop(_, _, _, _, _)

\* _ValidateClauseOrder: the embedded CALL {} at position i was checked
ClauseOrder_subquery(s, root, i, optional_match, updating_clause) ==
    IF s.res # "AST_VALID"
       THEN AST_INVALID(s)
       ELSE ClauseOrder_loop(s, root, i + 1, optional_match, updating_clause)

\* (variant: an OPTIONAL MATCH is not remembered)
ClauseOrder_clause_Mut(s, root, i, optional_match, updating_clause) ==
    IF root[i].t \in {"WITH", "UNION"}
       THEN ClauseOrder_loop(s, root, i + 1, FALSE, FALSE)
       ELSE IF root[i].t = "CALL_SUBQUERY"
               THEN ClauseOrder_subquery(
                        ValidateClauseOrder(s, root[i].body), root, i,
                        optional_match, updating_clause)
               ELSE ClauseOrder_loop(s, root, i + 1, optional_match,
                                     updating_clause)
\* _ValidateClauseOrder: clause i after the check against updating clauses
ClauseOrder_clause(s, root, i, optional_match, updating_clause) ==
    IF root[i].t = "MATCH"
       THEN IF ~root[i].optional /\ optional_match
               THEN AST_INVALID(
                        ErrorCtx_SetError(s, "MissingWithAfterOptionalMatch"))
               ELSE ClauseOrder_loop(s, root, i + 1,
                                     optional_match \/ root[i].optional,
                                     updating_clause)
       ELSE IF root[i].t \in {"WITH", "UNION"}
               THEN ClauseOrder_loop(s, root, i + 1, FALSE, FALSE)
               ELSE IF root[i].t = "CALL_SUBQUERY"
                       THEN ClauseOrder_subquery(
                                ValidateClauseOrder(s, root[i].body), root, i,
                                optional_match, updating_clause)
                       ELSE ClauseOrder_loop(s, root, i + 1, optional_match,
                                             updating_clause)

\* _ValidateClauseOrder: the loop over the clauses
ClauseOrder_loop(s, root, i, optional_match, updating_clause) ==
    IF i > Len(root)
       THEN AST_VALID(s)
       ELSE IF updating_clause /\ root[i].t \in ReadingTypes
               THEN AST_INVALID(ErrorCtx_SetError(s, "MissingWith"))
               ELSE ClauseOrder_clause(s, root, i, optional_match,
                        updating_clause \/ UPDATING_CALUSE(root[i].t))

\* _ValidateClauseOrder
ValidateClauseOrder(s, root) == ClauseOrder_loop(s, root, 1, FALSE, FALSE)

\* AST_GetClauseIndices: the positions of the clauses of one type
AST_GetClauseIndices(root, type) ==
    SelectSeq([i \in 1..Len(root) |-> i], LAMBDA i : root[i].t = type)

\* the column name of a RETURN projection: its alias, or the identifier it is
ProjectionAlias(proj) ==
    IF proj.alias # NoName THEN proj.alias ELSE proj.exp.name

\* _ValidateUnion_Clauses: the names projected by the first RETURN
UnionProjections(return_clause) ==
    [j \in 1..Len(return_clause.projections) |->
        ProjectionAlias(return_clause.projections[j])]

\* (variant: only the number of projections is compared)
UnionReturnMatches_Mut(projections, return_clause) ==
    Len(projections) = Len(return_clause.projections)
\* _ValidateUnion_Clauses: a later RETURN against the names of the first
UnionReturnMatches(projections, return_clause) ==
    /\ Len(projections) = Len(return_clause.projections)
    /\ \A j \in 1..Len(projections) :
           projections[j] = ProjectionAlias(return_clause.projections[j])

RECURSIVE ValidateUnion_Clauses(_, _)
RECURSIVE UnionClauses_subqueries(_, _, _, _)

\* _ValidateUnion_Clauses: the loop over the CALL {} clauses
UnionClauses_subqueries(s, root, call_subquery_indices, i) ==
    IF i > Len(call_subquery_indices)
       THEN s
       ELSE IF ValidateUnion_Clauses(
                   s, root[call_subquery_indices[i]].body).res = "AST_INVALID"
               THEN AST_INVALID(ValidateUnion_Clauses(
                        s, root[call_subquery_indices[i]].body))
               ELSE UnionClauses_subqueries(s, root, call_subquery_indices,
                                            i + 1)

\* (variant: a body may have more RETURN clauses than branches, not fewer)
UnionClauses_returns_Mut(s, root, union_clause_count, return_indices) ==
    IF Len(return_indices) > union_clause_count + 1
       THEN AST_INVALID(ErrorCtx_SetError(s, "UnionMissingReturns"))
       ELSE IF \E i \in 2..Len(return_indices) :
                   ~UnionReturnMatches(UnionProjections(root[return_indices[1]]),
                                       root[return_indices[i]])
               THEN AST_INVALID(ErrorCtx_SetError(s, "UnionMismatchedReturns"))
               ELSE AST_VALID(s)
\* _ValidateUnion_Clauses: the RETURN clauses of a body with UNION clauses
UnionClauses_returns(s, root, union_clause_count, return_indices) ==
    IF Len(return_indices) # union_clause_count + 1
       THEN AST_INVALID(ErrorCtx_SetError(s, "UnionMissingReturns"))
       ELSE IF \E i \in 2..Len(return_indices) :
                   ~UnionReturnMatches(UnionProjections(root[return_indices[1]]),
                                       root[return_indices[i]])
               THEN AST_INVALID(ErrorCtx_SetError(s, "UnionMismatchedReturns"))
               ELSE AST_VALID(s)

\* _ValidateUnion_Clauses: the body itself has been checked
UnionClauses_checked(s, root) ==
    IF s.res = "AST_INVALID"
       THEN s
       ELSE UnionClauses_subqueries(
                s, root, AST_GetClauseIndices(root, "CALL_SUBQUERY"), 1)

\* _ValidateUnion_Clauses
ValidateUnion_Clauses(s, root) ==
    UnionClauses_checked(
        IF Len(AST_GetClauseIndices(root, "UNION")) # 0
           THEN UnionClauses_returns(
                    AST_VALID(s), root,
                    Len(AST_GetClauseIndices(root, "UNION")),
                    AST_GetClauseIndices(root, "RETURN"))
           ELSE AST_VALID(s),
        root)

\* clauses the enumerated query bodies are built from
PathA == Path(<<NodePat(nA, 0, NoNode)>>)
Ra == R0(<<Projection(Ia, NoName)>>)
Rb == R0(<<Projection(Ia, nB)>>)
Rab == R0(<<Projection(Ia, NoName), Projection(Ia, nB)>>)
Wa == W0(<<Projection(Ia, NoName)>>)
Ma == Match(<<PathA>>, NoNode)
OMa == OptionalMatch(<<PathA>>, NoNode)
Ca == Create(<<PathA>>)
Uni == Union(REGULAR)

PlainClauses ==
    {Ma, OMa, Unwind(IntLit, nA), Call("labels", <<>>, <<>>),
     Ca, Merge(PathA), Delete(<<Ia>>), Set(<<SetProperty(PropOp(Ia), IntLit)>>),
     Remove(<<RemoveProperty(PropOp(Ia))>>), Foreach(nB, IntLit, <<Ca>>),
     Wa, With(TRUE, <<>>, NoNode, NoNode, NoNode, NoNode),
     Ra, Rb, Return(TRUE, <<>>, NoNode, NoNode, NoNode), Uni}

\* bodies of the CALL {} clauses of the enumerated query bodies
NestedBodies ==
    {<<Ma, Ra>>,
     <<Ca>>,
     <<Ma>>,
     <<Ra, Uni, Rb>>,
     <<Ca, Ma, Ra>>,
     <<OMa, Ma, Ra>>,
     <<CallSubquery(<<Ra, Uni, Ra, Uni, Rab>>), Ra>>,
     <<CallSubquery(<<Ra, Ca>>), Ca>>}

\* longer query bodies
LongQueries ==
    {<<Ma, Ra, Uni, Ma, Ra>>,
     <<Ra, Uni, Ra, Uni, Ra>>,
     <<Ra, Uni, Ra, Uni, Rb>>,
     <<Ra, Uni, Rab, Uni, Ra>>,
     <<Ma, Ra, Uni, Ra, Uni, Ca>>,
     <<Ca, Wa, Ma, Ra>>,
     <<Ca, Wa, Ca, Ma, Ra>>,
     <<Ca, Ra, Uni, Ma, Ra>>,
     <<OMa, Wa, Ma, Ra>>,
     <<OMa, Wa, OMa, Ma, Ra>>,
     <<OMa, Ra, Uni, Ma, Ra>>,
     <<OMa, Ca, Wa, Ma, Ra>>,
     <<Ca, CallSubquery(<<Ca, Ma, Ra>>), Ra>>,
     <<Ma, CallSubquery(<<CallSubquery(<<CallSubquery(<<Ma>>), Ca>>), Ca>>), Ra>>,
     <<Ma, CallSubquery(<<CallSubquery(<<CallSubquery(<<Ra>>)>>), Ra>>), Ra>>,
     <<Ma, CallSubquery(<<CallSubquery(<<OMa, Ma, Ra>>), Ra>>), Ra>>,
     <<Ma, CallSubquery(<<CallSubquery(<<Ca, Unwind(IntLit, nA), Ra>>), Ra>>), Ra>>,
     <<Ma, CallSubquery(<<CallSubquery(<<Ra, Uni, Ra, Uni>>), Ra>>), Ra>>,
     <<CallSubquery(<<Ma, Ra, Uni, Ma, Rb>>), Ra, Uni, Ma, Ra>>,
     <<CallSubquery(<<Ma, Ra, Uni, Ma, Ra>>), Ra, Uni, Ma, Ra>>}

\* query bodies around each of the CALL {} bodies
NestedQueries ==
    UNION {{<<CallSubquery(b)>>, <<Ma, CallSubquery(b)>>,
            <<CallSubquery(b), Ra>>, <<Ca, CallSubquery(b), Ra>>,
            <<Ma, Wa, CallSubquery(b), Ra>>} : b \in NestedBodies}

QueryClauses ==
    PlainClauses \cup {CallSubquery(b) : b \in {<<Ma, Ra>>, <<Ca>>, <<Ma>>}}

QueryBodies ==
    LongQueries \cup NestedQueries
    \cup UNION {[1..k -> QueryClauses] : k \in 1..MaxSeqLen}

\* AST_Validate_Query is handed the body of a query
ValidateQuery_Begin ==
    /\ qv.pc = "idle"
    /\ \E root \in QueryBodies :
          qv' = [qv EXCEPT !.pc = "sequence", !.query = root]
    /\ UNCHANGED <<astVars, scopeVars, parseVars>>

\* AST_Validate_Query: the next check has returned
QueryChecked(s, next) ==
    IF s.res = "AST_INVALID"
       THEN [s EXCEPT !.pc = "done"]
       ELSE [s EXCEPT !.pc = next]

\* AST_Validate_Query: _ValidateQuerySequence
ValidateQuery_Sequence ==
    /\ qv.pc = "sequence"
    /\ qv' = QueryChecked(ValidateQuerySequence(qv, qv.query), "order")
    /\ UNCHANGED <<astVars, scopeVars, parseVars>>

\* AST_Validate_Query: _ValidateClauseOrder
ValidateQuery_ClauseOrder ==
    /\ qv.pc = "order"
    /\ qv' = QueryChecked(ValidateClauseOrder(qv, qv.query), "union")
    /\ UNCHANGED <<astVars, scopeVars, parseVars>>

\* AST_Validate_Query: _ValidateUnion_Clauses; the checks of the paths and
\* of the scopes follow it
ValidateQuery_UnionClauses ==
    /\ qv.pc = "union"
    /\ qv' = QueryChecked(ValidateUnion_Clauses(qv, qv.query), "scopes")
    /\ UNCHANGED <<astVars, scopeVars, parseVars>>

NextQuery ==
    \/ ValidateQuery_Begin
    \/ ValidateQuery_Sequence
    \/ ValidateQuery_ClauseOrder
    \/ ValidateQuery_UnionClauses

Init == InitAst /\ InitScopes /\ InitParse /\ InitQuery

SpecNames == Init /\ [][NextNames]_vars

SpecAst == Init /\ [][NextAst]_vars

SpecScopes == Init /\ [][NextScopes]_vars

SpecParse == Init /\ [][NextParse]_vars

SpecQuery == Init /\ [][NextQuery]_vars

\* ------------------------------------------------------------------------
\* Properties of the scope validator
\* ------------------------------------------------------------------------
Bound(env) == {name \in Names : env[name] # raxNotFound}
ObsOf(types) == {o \in vs.obs : o.n.t \in types}
Succeeded(o) == o.strat = "CONTINUE" /\ ~o.errpost
LastClause(n) == n.body[Len(n.body)]
ReturningObs ==
    {o \in ObsOf({"CALL_SUBQUERY"}) : Succeeded(o) /\ LastClause(o.n).t = "RETURN"}

\* every column of the final RETURN of a subquery
ReturnedColumns(n) ==
    {ColumnName(LastClause(n).projections[i]) :
        i \in 1..Len(LastClause(n).projections)}

\* the columns of the final RETURN other than `@x AS y`
ExportedColumns(n) ==
    {ColumnName(LastClause(n).projections[i]) :
        i \in {j \in 1..Len(LastClause(n).projections) :
                 LET p == LastClause(n).projections[j]
                 IN ~(p.alias # NoName /\ p.exp.t = "IDENTIFIER" /\
                      p.exp.name[1] = "@")}}

\* C4 (as stated): after a returning CALL {} validated without error the
\* outer environment is the entry environment plus every column projected by
\* the final RETURN
C4_SubqueryBoundary_Stated ==
    \A o \in ReturningObs :
        \A name \in Names :
            IF name \in ReturnedColumns(o.n)
               THEN o.post[name] # raxNotFound
               ELSE o.post[name] = o.pre[name]

\* C4 (amended): after a returning CALL {} validated without error the outer
\* environment is the entry environment, names and typing hints, plus the
\* columns of the final RETURN that are not artificial projections `@x AS y`,
\* each bound without a typing hint
C4_SubqueryBoundary ==
    \A o \in ReturningObs :
        \A name \in Names :
            o.post[name] = IF name \in ExportedColumns(o.n) THEN VNULL
                                                            ELSE o.pre[name]

\* C4 witness: a returning subquery that binds names of its own in a MATCH
\* was validated without error in an environment that holds a node binding
C4_Witness ==
    \E o \in ReturningObs :
        /\ o.n.body[1].t = "MATCH"
        /\ ExportedColumns(o.n) # {}
        /\ \E name \in Names : o.pre[name] = T_NODE

\* C5: after a FOREACH clause, on success and on every error path, the
\* environment holds exactly the names and typing hints it held before, the
\* original map is reinstated and the scoped clone is gone
C5_ForeachScope ==
    \A o \in ObsOf({"FOREACH"}) :
        o.post = o.pre /\ o.restored /\ ~o.scoped_live

\* C5 witness: a FOREACH whose loop variable was not bound before and whose
\* body creates a node under a new name has been validated without error in
\* a non-empty environment
C5_Witness ==
    \E o \in ObsOf({"FOREACH"}) :
        /\ Succeeded(o)
        /\ o.pre[o.n.id] = raxNotFound
        /\ Bound(o.pre) # {}
        /\ o.n.clauses[1] = Create(<<PathNew>>)

\* C6 (as stated): a list comprehension, pattern comprehension or reduce that
\* validates without error leaves the set of bound identifiers unchanged
C6_ComprehensionScope ==
    \A o \in ObsOf({"LIST_COMPREHENSION", "PATTERN_COMPREHENSION", "REDUCE"}) :
        Succeeded(o) => Bound(o.post) = Bound(o.pre)

\* C7 (as stated): once an error is recorded no further node is visited and
\* no further error is recorded
C7_FirstErrorStops == ~vs.late /\ vs.nerr <= 1

\* the identifiers a construct introduces if they were not bound before
Locals(n) ==
    CASE n.t = "REDUCE" -> {n.accum, n.id}
      [] n.t \in {"LIST_COMPREHENSION", "PATTERN_COMPREHENSION"} -> {n.id} \ {NoName}
      [] OTHER -> {}

\* C8 (as stated): a handler that returns BREAK has undone its change of the
\* environment: comprehension and reduce locals are removed, the clause
\* changed by reduce is restored, FOREACH's scoped clone is freed and the
\* original environment reinstated
C8_BreakUndone ==
    \A o \in ObsOf({"LIST_COMPREHENSION", "PATTERN_COMPREHENSION", "REDUCE",
                    "FOREACH"}) :
        o.strat = "BREAK" =>
            /\ \A name \in Locals(o.n) :
                  o.pre[name] = raxNotFound => o.post[name] = raxNotFound
            /\ o.n.t = "REDUCE" => o.postclause = o.preclause
            /\ o.n.t = "FOREACH" => o.restored /\ ~o.scoped_live

\* C9: every identifier map created during the pass is freed exactly once on
\* every exit path, and none is used or freed after it was freed
C9_MapsFreedOnce ==
    /\ ~vs.dbl_free
    /\ ~vs.uaf
    /\ ~vs.leak
    /\ vpc \in {"visit", "cleanup"} => DOMAIN vs.heap = {vs.def}
    /\ vpc = "done" => DOMAIN vs.heap = {}

\* C9 witness: the pass has ended after a CALL {} that met an error in its
\* body while its clone of the outer environment was live
C9_Witness ==
    /\ vpc = "done"
    /\ \E o \in ObsOf({"CALL_SUBQUERY"}) :
          o.strat = "BREAK" /\ Len(o.n.body) > 1 /\ o.n.body[1].t = "WITH"

\* ------------------------------------------------------------------------
\* Properties of parse_query
\* ------------------------------------------------------------------------
\* the parse-result has no root other than comments
NoStatementRoot(result) ==
    /\ result.t = "RESULT"
    /\ result.eof
    /\ ~AST_ContainsErrors(result)
    /\ \A i \in 1..Len(result.roots) : result.roots[i] \in CommentTypes

\* C10: whenever parse_query returns no parse-result the error slot holds an
\* error; an input that is empty once its trailing semicolons are removed,
\* and a parse-result without a statement root, record EmptyQuery
C10_NullRecordsError ==
    (pq.pc = "done" /\ pq.ret = "NULL") =>
        /\ pq.err # "none"
        /\ pq.len = 0 => pq.err = "EmptyQuery"
        /\ (pq.len > 0 /\ NoStatementRoot(pq.parsed)) => pq.err = "EmptyQuery"

\* the UNION clauses of a clause list, and of every CALL {} body in it, are
\* of one flavour per list
RECURSIVE OneFlavour(_)
OneFlavour(body) ==
    /\ \A i, j \in 1..Len(body) :
           (body[i].t = "UNION" /\ body[j].t = "UNION") =>
               body[i].all = body[j].all
    /\ \A i \in 1..Len(body) :
           body[i].t = "CALL_SUBQUERY" => OneFlavour(body[i].body)

\* what the UNION and CALL {} handlers of the clause just visited did
C14_Scopes ==
    /\ \A o \in ObsOf({"UNION"}) : ~o.errpre =>
           IF o.union_pre \in {NOT_DEFINED, o.n.all}
              THEN /\ ~o.errpost /\ o.strat = "RECURSE"
                   /\ o.union_post = o.n.all
              ELSE /\ o.errpost /\ o.strat = "BREAK"
                   /\ vs.err = "UnionCombination"
                   /\ o.union_post = o.union_pre
    /\ \A o \in ObsOf({"CALL_SUBQUERY"}) :
           /\ ~o.errpost => o.union_post = o.union_pre
           /\ (~o.errpre /\ o.errpost /\ vs.err = "UnionCombination") =>
                  ~OneFlavour(o.n.body)
           /\ (~o.errpre /\ ~OneFlavour(o.n.body)) => o.errpost

\* the flavour of the scope changes only when its first UNION is visited,
\* unless the walk has ended with an error
C14_Step ==
    vs'.union_all # vs.union_all =>
        \/ vpc' = "cleanup"
        \/ vs.union_all = NOT_DEFINED /\ vs'.clause = "UNION"

\* C14: in one query scope the first UNION fixes the flavour and a later
\* UNION of the other flavour is rejected with UnionCombination; the UNIONs of
\* a CALL {} body are a scope of their own: the body starts with no flavour
\* fixed, and the flavour of the enclosing scope is back, unchanged, when the
\* CALL {} has been validated.
C14_UnionFlavour == []C14_Scopes /\ [][C14_Step]_vars

\* after a UNION, a CALL {} whose body has a UNION ALL was validated
C14_Witness ==
    \E o \in ObsOf({"CALL_SUBQUERY"}) :
        /\ ~o.errpost
        /\ o.union_pre = REGULAR /\ o.union_post = REGULAR
        /\ \E i \in 1..Len(o.n.body) :
              o.n.body[i].t = "UNION" /\ o.n.body[i].all = ALL

\* the WITH clauses that were validated without error
ValidatedWith ==
    {o \in ObsOf({"WITH"}) : ~o.errpre /\ Succeeded(o)}

\* the column names a WITH projects
WithColumns(n) ==
    {ColumnName(n.projections[i]) : i \in 1..Len(n.projections)}

\* after a WITH without *: exactly its columns, each with unspecified hint
WithReplaces(o) ==
    /\ Bound(o.post) = WithColumns(o.n)
    /\ \A name \in Bound(o.post) : o.post[name] = VNULL

\* C19: after a WITH without * the environment holds exactly the projected
\* column names, each with unspecified typing hint, and none of the earlier
\* bindings; after a WITH * the earlier bindings are kept with their typing
\* hints and the projected aliases are added (a name that is projected again
\* is bound as the projection binds it, with unspecified hint).
C19_WithScope ==
    \A o \in ValidatedWith :
        IF ~o.n.include_existing
           THEN WithReplaces(o)
           ELSE /\ \A name \in Bound(o.pre) \ WithColumns(o.n) :
                       o.post[name] = o.pre[name]
                /\ \A name \in WithColumns(o.n) : o.post[name] = VNULL

\* the pattern elements of a CREATE clause, path after path
RECURSIVE CreateElems(_, _)
CreateElems(pattern, i) ==
    IF i > Len(pattern) THEN <<>>
    ELSE pattern[i].elems \o CreateElems(pattern, i + 1)

\* the expression tree `n` refers to the identifier `name`
RECURSIVE Mentions(_, _)
Mentions(n, name) ==
    \/ n.t = "IDENTIFIER" /\ n.name = name
    \/ \E k \in 1..Len(Children(n)) : Mentions(Children(n)[k], name)

\* element j of the CREATE brings in an identifier that was not bound before
Introduces(elems, j, pre) ==
    elems[j].id # NoName /\ pre[elems[j].id] = raxNotFound

\* an element refers, in its properties, to an identifier that an earlier
\* element of the clause introduces
RefersToSibling(elems, pre) ==
    \E j, k \in 1..Len(elems) :
        /\ j < k
        /\ Introduces(elems, j, pre)
        /\ Present(elems[k].props)
        /\ Mentions(elems[k].props, elems[j].id)

\* the types of the elements that carry the identifier `name`
KindsOf(elems, name) ==
    {IF elems[j].t = "NODE_PATTERN" THEN T_NODE ELSE T_EDGE :
        j \in {k \in 1..Len(elems) : elems[k].id = name}}

\* every identifier the clause introduced is bound with the type of an
\* element that carries it
IntroducedAreTyped(elems, o) ==
    \A j \in 1..Len(elems) :
        Introduces(elems, j, o.pre) =>
            o.post[elems[j].id] \in KindsOf(elems, elems[j].id)

\* every named element of the clause introduces its identifier
AllNew(elems, pre) ==
    \A j \in 1..Len(elems) : elems[j].id # NoName => Introduces(elems, j, pre)

ObtainedResult == pq.pc = "done" /\ pq.parsed.t = "RESULT"

\* C11: whenever parse_query got a parse-result and then fails, the
\* parse-result has been freed exactly once when NULL is returned; when
\* parse_query succeeds the parse-result is returned and has not been freed.
C11_ParseResultFreedOnce ==
    /\ (ObtainedResult /\ pq.ret = "NULL") => pq.nfreed = 1
    /\ (pq.pc = "done" /\ pq.ret = "result") =>
           (pq.parsed.t = "RESULT" /\ pq.nfreed = 0)

\* a query that was accepted, rewritten, and rejected by the second validation
C11_Witness ==
    /\ ObtainedResult /\ pq.ret = "NULL"
    /\ pq.vlog = <<"AST_VALID", "AST_INVALID">>
    /\ pq.nfreed = 1

AllRewrites == <<"SameClauses", "CallSubquery", "StarProjections">>

\* C12: parse_query rewrites only a query that a first validation accepted;
\* the three rewrites run in the fixed order same-clause coalescing, CALL {}
\* rewrite, star-projection expansion, each of them whatever the earlier ones
\* reported; validation runs a second time exactly when at least one rewrite
\* reported a change; and the parse-result is returned only when the last
\* validation that ran accepted the query.
C12_RewriteThenRevalidate ==
    pq.pc = "done" =>
        /\ pq.rewrites \in {<<>>, AllRewrites}
        /\ pq.rewrites # <<>> =>
               (Len(pq.vlog) >= 1 /\ pq.vlog[1] = "AST_VALID")
        /\ (Len(pq.vlog) >= 1 /\ pq.vlog[1] = "AST_VALID") =>
               pq.rewrites = AllRewrites
        /\ Len(pq.vlog) <= 2
        /\ Len(pq.vlog) = 2 <=>
               (pq.rewrites = AllRewrites /\ pq.rerun_validation)
        /\ pq.ret = "result" =>
               (Len(pq.vlog) >= 1 /\ pq.vlog[Len(pq.vlog)] = "AST_VALID")

\* only the last rewrite reported a change, and the query was validated again
\* and returned
C12_Witness ==
    /\ pq.pc = "done" /\ pq.ret = "result"
    /\ pq.rewrites = AllRewrites
    /\ pq.vlog = <<"AST_VALID", "AST_VALID">>

\* ------------------------------------------------------------------------
\* Properties of the checks of the clause sequence
\* ------------------------------------------------------------------------
\* every clause list of a query body: the body itself and the body of every
\* CALL {} clause, at any depth
RECURSIVE ClauseLists(_)
ClauseLists(root) ==
    {root} \cup UNION {ClauseLists(root[i].body) :
                          i \in {j \in 1..Len(root) : root[j].t = "CALL_SUBQUERY"}}

PositionsOf(list, types) == {i \in 1..Len(list) : list[i].t \in types}

\* a WITH or UNION stands strictly between the positions i and j
Separated(list, i, j) ==
    \E k \in (i + 1)..(j - 1) : list[k].t \in {"WITH", "UNION"}

ColumnNames(clause) ==
    [k \in 1..Len(clause.projections) |->
        IF clause.projections[k].alias # NoName
           THEN clause.projections[k].alias
           ELSE clause.projections[k].exp.name]

\* the rules of one clause list
ReturnsCounted(list) ==
    PositionsOf(list, {"UNION"}) = {} \/
    Cardinality(PositionsOf(list, {"RETURN"})) =
        Cardinality(PositionsOf(list, {"UNION"})) + 1
ReturnsAgree(list) ==
    PositionsOf(list, {"UNION"}) = {} \/
    \A i, j \in PositionsOf(list, {"RETURN"}) :
        ColumnNames(list[i]) = ColumnNames(list[j])
EndsProperly(list) ==
    /\ list[Len(list)].t \in {"RETURN", "CREATE", "MERGE", "DELETE", "SET",
                              "REMOVE", "CALL", "CALL_SUBQUERY", "FOREACH"}
    /\ list[Len(list)].t = "CALL_SUBQUERY" =>
           list[Len(list)].body[Len(list[Len(list)].body)].t # "RETURN"
UnionFollowsReturn(list) ==
    \A i \in 1..(Len(list) - 1) :
        list[i].t = "RETURN" => list[i + 1].t = "UNION"
NoReadAfterUpdate(list) ==
    \A i, j \in 1..Len(list) :
        (/\ i < j
         /\ list[i].t \in {"CREATE", "MERGE", "DELETE", "SET", "REMOVE", "FOREACH"}
         /\ list[j].t \in {"MATCH", "UNWIND", "CALL", "CALL_SUBQUERY"})
        => Separated(list, i, j)
NoMatchAfterOptional(list) ==
    \A i, j \in 1..Len(list) :
        (/\ i < j
         /\ list[i].t = "MATCH" /\ list[i].optional
         /\ list[j].t = "MATCH" /\ ~list[j].optional)
        => Separated(list, i, j)
StartsProperly(root) ==
    ~(root[1].t \in {"WITH", "RETURN"} /\ root[1].include_existing)

\* the rules some clause list of the query body breaks
BrokenRules(root) ==
    {r \in {"union", "end", "follow", "update", "optional", "start"} :
        \/ r = "start" /\ ~StartsProperly(root)
        \/ \E list \in ClauseLists(root) :
              \/ r = "union" /\ ~(ReturnsCounted(list) /\ ReturnsAgree(list))
              \/ r = "end" /\ ~EndsProperly(list)
              \/ r = "follow" /\ ~UnionFollowsReturn(list)
              \/ r = "update" /\ ~NoReadAfterUpdate(list)
              \/ r = "optional" /\ ~NoMatchAfterOptional(list)}

\* how far AST_Validate_Query has come
Rejected == qv.pc = "done"
PassedSequence == qv.pc \in {"order", "union", "scopes"}
PassedOrder == qv.pc \in {"union", "scopes"}
PassedUnion == qv.pc = "scopes"

\* C13: a query body that passes the checks has, in every clause list with a
\* UNION (at any depth of CALL {}), one RETURN more than UNIONs, all RETURNs
\* projecting the same column names in the same order; a body that breaks
\* this is rejected, with UnionMissingReturns (count) or
\* UnionMismatchedReturns (names) when it breaks no other rule, and these
\* errors are reported for such a body only.
C13_UnionColumns ==
    /\ PassedUnion => "union" \notin BrokenRules(qv.query)
    /\ (Rejected /\ qv.err = "UnionMissingReturns") =>
           \E list \in ClauseLists(qv.query) : ~ReturnsCounted(list)
    /\ (Rejected /\ qv.err = "UnionMismatchedReturns") =>
           \E list \in ClauseLists(qv.query) : ~ReturnsAgree(list)
    /\ (Rejected /\ BrokenRules(qv.query) = {"union"}) =>
           qv.err \in {"UnionMissingReturns", "UnionMismatchedReturns"}

\* the RETURNs of a nested CALL {} body disagree, those of the body agree
C13_Witness ==
    /\ Rejected /\ qv.err = "UnionMismatchedReturns"
    /\ ReturnsAgree(qv.query) /\ ReturnsCounted(qv.query)
    /\ PositionsOf(qv.query, {"UNION"}) # {}

\* C15: a query body passes the termination check only if every clause list
\* (the body and every CALL {} body at any depth) ends with RETURN, CREATE,
\* MERGE, DELETE, SET, REMOVE, CALL, CALL {} or FOREACH, and a CALL {} in
\* last position has a body that does not end with RETURN; a body that breaks
\* this is rejected, with InvalidLastClause when no clause follows a RETURN,
\* and InvalidLastClause is reported for such a body only.
C15_LastClause ==
    /\ PassedSequence => "end" \notin BrokenRules(qv.query)
    /\ (Rejected /\ qv.err = "InvalidLastClause") =>
           "end" \in BrokenRules(qv.query)
    /\ (Rejected /\ "end" \in BrokenRules(qv.query)
                 /\ "follow" \notin BrokenRules(qv.query)) =>
           qv.err = "InvalidLastClause"
    /\ (qv.pc # "idle" /\ "end" \in BrokenRules(qv.query)) =>
           qv.pc \in {"sequence", "done"}

\* the body ends properly; a CALL {} body two levels down does not
C15_Witness ==
    /\ Rejected /\ qv.err = "InvalidLastClause"
    /\ EndsProperly(qv.query)
    /\ \A i \in PositionsOf(qv.query, {"CALL_SUBQUERY"}) :
           EndsProperly(qv.query[i].body)

\* C16: in every clause list of a query body that passes the termination
\* check, the clause right after a RETURN is a UNION; a body with another
\* clause after a RETURN is rejected, with UnexpectedClauseFollowingReturn
\* when every clause list ends properly, and that error is reported for such
\* a body only.
C16_UnionAfterReturn ==
    /\ PassedSequence => "follow" \notin BrokenRules(qv.query)
    /\ (Rejected /\ qv.err = "UnexpectedClauseFollowingReturn") =>
           "follow" \in BrokenRules(qv.query)
    /\ (Rejected /\ "follow" \in BrokenRules(qv.query)
                 /\ "end" \notin BrokenRules(qv.query)) =>
           qv.err = "UnexpectedClauseFollowingReturn"

\* a clause follows the RETURN of a CALL {} body
C16_Witness ==
    /\ Rejected /\ qv.err = "UnexpectedClauseFollowingReturn"
    /\ UnionFollowsReturn(qv.query)

\* C17: in every clause list of a query body that passes the check of the
\* clause order, no MATCH, UNWIND, CALL or CALL {} comes after a CREATE,
\* MERGE, DELETE, SET, REMOVE or FOREACH without a WITH or UNION in between,
\* each CALL {} body counting as a list of its own; a body that breaks this
\* is rejected, with MissingWith when it breaks no other rule, and
\* MissingWith is reported for such a body only.
C17_ReadAfterUpdate ==
    /\ PassedOrder => "update" \notin BrokenRules(qv.query)
    /\ (Rejected /\ qv.err = "MissingWith") =>
           "update" \in BrokenRules(qv.query)
    /\ (Rejected /\ BrokenRules(qv.query) = {"update"}) =>
           qv.err = "MissingWith"

\* an updating clause, a WITH, an updating clause and a reading clause
C17_Witness ==
    /\ Rejected /\ qv.err = "MissingWith"
    /\ \E i, j, k \in 1..Len(qv.query) :
          /\ i < j /\ j < k
          /\ UPDATING_CALUSE(qv.query[i].t)
          /\ qv.query[j].t = "WITH"
          /\ UPDATING_CALUSE(qv.query[k].t)

\* C18: in every clause list of a query body that passes the check of the
\* clause order, no non-optional MATCH comes after an OPTIONAL MATCH without
\* a WITH or UNION in between; a body that breaks this is rejected, with
\* MissingWithAfterOptionalMatch when it breaks no other rule, and that error
\* is reported for such a body only.
C18_MatchAfterOptional ==
    /\ PassedOrder => "optional" \notin BrokenRules(qv.query)
    /\ (Rejected /\ qv.err = "MissingWithAfterOptionalMatch") =>
           "optional" \in BrokenRules(qv.query)
    /\ (Rejected /\ BrokenRules(qv.query) = {"optional"}) =>
           qv.err = "MissingWithAfterOptionalMatch"

\* OPTIONAL MATCH, WITH, OPTIONAL MATCH, MATCH: the WITH cleared only the
\* first OPTIONAL MATCH
C18_Witness ==
    /\ Rejected /\ qv.err = "MissingWithAfterOptionalMatch"
    /\ PositionsOf(qv.query, {"WITH"}) # {}

\* ------------------------------------------------------------------------
\* Properties of the scope validator: bindings made by the clauses
\* ------------------------------------------------------------------------
\* the paths of a CREATE made of one node pattern whose identifier is bound
BoundSingles(pattern, pre) ==
    {i \in 1..Len(pattern) :
        /\ Len(pattern[i].elems) = 1
        /\ pattern[i].elems[1].id # NoName
        /\ pre[pattern[i].elems[1].id] # raxNotFound}

\* a path of more than one element has a node pattern whose identifier is
\* bound as a node
ReusesNode(pattern, pre) ==
    \E i \in 1..Len(pattern) : \E j \in 1..Len(pattern[i].elems) :
        /\ Len(pattern[i].elems) > 1
        /\ pattern[i].elems[j].t = "NODE_PATTERN"
        /\ pattern[i].elems[j].id # NoName
        /\ pre[pattern[i].elems[j].id] = T_NODE

\* a relationship pattern of the CREATE carries an identifier that is bound
BoundRels(pattern, pre) ==
    \E i \in 1..Len(pattern) : \E j \in 1..Len(pattern[i].elems) :
        /\ pattern[i].elems[j].t = "REL_PATTERN"
        /\ pattern[i].elems[j].id # NoName
        /\ pre[pattern[i].elems[j].id] # raxNotFound

\* the identifiers carried by the elements of a CREATE
AliasesOf(pattern) ==
    {CreateElems(pattern, 1)[j].id : j \in 1..Len(CreateElems(pattern, 1))}

\* C21: a CREATE with a path made of a single node pattern whose identifier
\* is already bound is rejected, with Redeclare when that path is the first;
\* the reuse of a bound node identifier in a longer path is no redeclaration
\* (Redeclare is reported only for a single bound node or a bound
\* relationship identifier), and once the clause validates every identifier
\* that was bound as a node is still bound as a node and no name other than
\* the identifiers of the pattern has changed.
C21_CreateReuse ==
    \A o \in ObsOf({"CREATE"}) : ~o.errpre =>
        /\ BoundSingles(o.n.pattern, o.pre) # {} =>
               (o.errpost /\ o.strat = "BREAK")
        /\ 1 \in BoundSingles(o.n.pattern, o.pre) => vs.err = "Redeclare"
        /\ (o.errpost /\ vs.err = "Redeclare") =>
               (BoundSingles(o.n.pattern, o.pre) # {} \/
                BoundRels(o.n.pattern, o.pre))
        /\ Succeeded(o) =>
               \A name \in Names :
                   /\ o.pre[name] = T_NODE => o.post[name] = T_NODE
                   /\ name \notin AliasesOf(o.n.pattern) =>
                          o.post[name] = o.pre[name]

\* MATCH (a) CREATE (a)-[b:R]->() validated: a is still a node and the
\* unnamed node added nothing
C21_Witness ==
    \E o \in ObsOf({"CREATE"}) :
        /\ Succeeded(o) /\ ~o.ignore
        /\ ReusesNode(o.n.pattern, o.pre)
        /\ NoName \in AliasesOf(o.n.pattern)
        /\ Bound(o.post) \ Bound(o.pre) # {}

\* the pattern elements of a MATCH, CREATE or MERGE clause
PathElems(p) == IF p.t = "NAMED_PATH" THEN p.path.elems ELSE p.elems
RECURSIVE PatternElems(_, _)
PatternElems(pattern, i) ==
    IF i > Len(pattern) THEN <<>>
    ELSE PathElems(pattern[i]) \o PatternElems(pattern, i + 1)
ClauseElems(n) ==
    IF n.t = "MERGE" THEN n.path.elems ELSE PatternElems(n.pattern, 1)

\* one name is the identifier of a node pattern and of a relationship pattern
UsesBothKinds(elems) ==
    \E j, k \in 1..Len(elems) :
        /\ elems[j].id # NoName
        /\ elems[j].id = elems[k].id
        /\ elems[j].t = "NODE_PATTERN"
        /\ elems[k].t = "REL_PATTERN"

\* a name bound as one kind of entity is bound as the other kind afterwards
Rebound(pre, post) ==
    \E name \in Names :
        \/ pre[name] = T_EDGE /\ post[name] = T_NODE
        \/ pre[name] = T_NODE /\ post[name] = T_EDGE

\* C22: a MATCH, CREATE or MERGE clause that uses one name both as the
\* identifier of a node pattern and of a relationship pattern is rejected,
\* whichever of the two comes first, and a clause that validates leaves no
\* name that was bound as EDGE bound as NODE, or the reverse.
C22_NodeEdgeExclusive ==
    \A o \in ObsOf({"MATCH", "CREATE", "MERGE"}) : ~o.errpre =>
        /\ UsesBothKinds(ClauseElems(o.n)) => o.errpost
        /\ Succeeded(o) => ~Rebound(o.pre, o.post)

\* what an UNWIND does with its alias, when identifier checks are in force
\* (`checked`) or whatever the flag (`checked` is TRUE for every clause)
UnwindAlias(o, checked) ==
    /\ o.pre[o.n.alias] # raxNotFound =>
           /\ o.errpost /\ o.strat = "BREAK"
           /\ o.n.exp.t = "INTEGER" => vs.err = "VariableAlreadyDeclared"
    /\ o.pre[o.n.alias] = raxNotFound =>
           /\ Succeeded(o) => o.post[o.n.alias] = VNULL
           /\ (checked /\ o.n.exp = Ident(o.n.alias)) =>
                  (o.errpost /\ vs.err = "NotDefined")

\* C23 as stated: an UNWIND whose alias is already bound, with any typing
\* hint, is rejected, with VariableAlreadyDeclared once its collection has
\* validated; a new alias is bound with unspecified type, and a collection
\* that refers to the alias is rejected since the alias is not bound yet.
C23_UnwindAlias_Stated ==
    \A o \in ObsOf({"UNWIND"}) : ~o.errpre => UnwindAlias(o, TRUE)

\* C23: an UNWIND whose alias is already bound, with any typing hint, is
\* rejected, with VariableAlreadyDeclared once its collection has validated;
\* a new alias is bound with unspecified type, and a collection that refers
\* to the alias is rejected since the alias is not bound yet, unless
\* ignore_identifiers is set.
C23_UnwindAlias ==
    \A o \in ObsOf({"UNWIND"}) : ~o.errpre => UnwindAlias(o, ~o.ignore)

\* MATCH (a)-[b:R]->() UNWIND 1 AS b was rejected with VariableAlreadyDeclared
C23_Witness ==
    \E o \in ObsOf({"UNWIND"}) :
        /\ ~o.errpre /\ o.errpost /\ vs.err = "VariableAlreadyDeclared"
        /\ o.pre[o.n.alias] = T_EDGE
        /\ o.n.exp.t = "INTEGER"

\* the names a clause uses as identifiers of node patterns
NodeAliases(n) ==
    {ClauseElems(n)[j].id :
        j \in {k \in 1..Len(ClauseElems(n)) :
                  /\ ClauseElems(n)[k].t = "NODE_PATTERN"
                  /\ ClauseElems(n)[k].id # NoName}}

\* C24: when the query opens with an UNWIND and the next clause is a MATCH
\* that uses the name bound by the UNWIND (the only name bound with an
\* unspecified hint at that point) as the identifier of a node pattern, the
\* MATCH is rejected with VariableAlreadyDeclared.
C24_UnwindThenMatch ==
    \A o \in ObsOf({"MATCH"}) :
        (/\ vn = 2
         /\ o.preclause = "UNWIND"
         /\ ~o.errpre
         /\ \E name \in NodeAliases(o.n) : o.pre[name] = VNULL)
        => (o.errpost /\ vs.err = "VariableAlreadyDeclared")

\* C25: a FOREACH whose loop variable is already bound in the enclosing
\* scope is rejected, with VariableAlreadyDeclared once its list expression
\* has validated.
C25_ForeachVariable ==
    \A o \in ObsOf({"FOREACH"}) :
        (~o.errpre /\ o.pre[o.n.id] # raxNotFound) =>
            /\ o.errpost
            /\ o.n.exp.t = "INTEGER" => vs.err = "VariableAlreadyDeclared"

IsAggregateCall(n) ==
    \/ n.t = "APPLY_OPERATOR" /\ AR_FuncExists(n.func) /\ AR_FuncIsAggregate(n.func)
    \/ n.t = "APPLY_ALL_OPERATOR" /\ n.func = "count" /\ ~n.distinct

\* C27: a call of an aggregate function, COUNT(*) included, that is visited
\* while the clause of the context is neither WITH nor RETURN is rejected
\* with InvalidUseOfAggregation; a call of an unknown function is rejected
\* with UnknownFunction.
C27_AggregationContext ==
    \A o \in ObsOf({"APPLY_OPERATOR", "APPLY_ALL_OPERATOR"}) : ~o.errpre =>
        /\ (o.n.t = "APPLY_OPERATOR" /\ ~AR_FuncExists(o.n.func)) =>
               (o.errpost /\ vs.err = "UnknownFunction")
        /\ (IsAggregateCall(o.n) /\ o.preclause \notin {"WITH", "RETURN"}) =>
               (o.errpost /\ vs.err = "InvalidUseOfAggregation")

\* the output names a CALL yields, in order
YieldNames(n) == [j \in 1..Len(n.projections) |-> n.projections[j].exp.name]
YieldRepeats(n) ==
    \E j, k \in 1..Len(n.projections) :
        j < k /\ YieldNames(n)[j] = YieldNames(n)[k]
YieldUnknown(n, proc) ==
    \E j \in 1..Len(n.projections) : YieldNames(n)[j] \notin proc.outputs
ArityMatches(n, proc) ==
    proc.argc = PROCEDURE_VARIABLE_ARG_COUNT \/ proc.argc = Len(n.args)

\* the errors the checks of a procedure CALL may end with; none: accepted
CallErrors(n, proc) ==
    IF ~Present(proc) THEN {"ProcedureNotRegistered"}
    ELSE IF ~ArityMatches(n, proc) THEN {"ProcedureInvalidArguments"}
    ELSE (IF YieldRepeats(n) THEN {"VariableAlreadyDeclared"} ELSE {})
         \cup (IF YieldUnknown(n, proc) THEN {"ProcedureInvalidOutput"} ELSE {})

\* C28: the checks of a procedure CALL pass only if the procedure is
\* registered (else ProcedureNotRegistered), then the number of arguments
\* equals the declared arity unless the procedure is variadic (else
\* ProcedureInvalidArguments), then every YIELD output name occurs at most
\* once (else VariableAlreadyDeclared) and is an output of the procedure
\* (else ProcedureInvalidOutput).
C28_ProcedureCall ==
    \A o \in ObsOf({"CALL"}) : ~o.errpre =>
        IF CallErrors(o.n, Proc_Get(o.n.proc)) = {}
           THEN ~o.errpost /\ o.strat = "RECURSE"
           ELSE /\ o.errpost /\ o.strat = "BREAK"
                /\ vs.err \in CallErrors(o.n, Proc_Get(o.n.proc))

\* CALL labels(1) YIELD @a was rejected for its arguments, before its outputs
C28_Witness ==
    \E o \in ObsOf({"CALL"}) :
        /\ ~o.errpre /\ o.errpost /\ vs.err = "ProcedureInvalidArguments"
        /\ YieldUnknown(o.n, Proc_Get(o.n.proc))

\* the positions of the import lists of a CALL {} body: a WITH that opens
\* the body or follows a UNION
LeadingWiths(body) ==
    {i \in 1..Len(body) :
        body[i].t = "WITH" /\ (i = 1 \/ body[IF i > 1 THEN i - 1 ELSE 1].t = "UNION")}

\* what an import list may be
ImportOk(w) ==
    /\ ~Present(w.order_by) /\ ~Present(w.skip)
    /\ ~Present(w.limit) /\ ~Present(w.predicate)
    /\ \A i \in 1..Len(w.projections) :
           IF w.projections[i].exp.t = "IDENTIFIER"
              THEN w.projections[i].alias = NoName \/
                   IsInternal(w.projections[i].alias)
              ELSE ~TreeContainsType(w.projections[i].exp, "IDENTIFIER")
    /\ ~ \E i, j \in 1..Len(w.projections) :
           /\ w.projections[i].exp.t = "IDENTIFIER"
           /\ w.projections[i].alias = NoName
           /\ w.projections[j].exp.t # "IDENTIFIER"

BadImports(body) == {i \in LeadingWiths(body) : ~ImportOk(body[i])}

\* C29: a CALL {} whose body has an import list (a WITH that opens the body
\* or follows a UNION) with ORDER BY, SKIP, LIMIT or a predicate, with an
\* identifier projection aliased to a name that is not internal, with a
\* non-identifier projection that contains an identifier, or with plain
\* identifier imports next to non-identifier projections, is rejected, with
\* CallSubqueryInvalidReferences when it is the opening WITH; and that error
\* is reported only for such an import list.
C29_SubqueryImports ==
    /\ \A o \in ObsOf({"CALL_SUBQUERY"}) : ~o.errpre =>
           /\ BadImports(o.n.body) # {} => (o.errpost /\ o.strat = "BREAK")
           /\ 1 \in BadImports(o.n.body) =>
                  vs.err = "CallSubqueryInvalidReferences"
    /\ vs.err = "CallSubqueryInvalidReferences" =>
           \E o \in ObsOf({"CALL_SUBQUERY"}) : BadImports(o.n.body) # {}

\* WITH 1 AS a CALL { WITH a + 1 AS b RETURN b } was rejected
C29_Witness ==
    \E o \in ObsOf({"CALL_SUBQUERY"}) :
        /\ ~o.errpre /\ o.errpost /\ vs.err = "CallSubqueryInvalidReferences"
        /\ o.pre[nA] # raxNotFound
        /\ 1 \in BadImports(o.n.body)
        /\ o.n.body[1].projections[1].exp.t = "BINARY_OPERATOR"

\* the projections of a WITH or RETURN that have a column name, and the
\* names that two of them share
Named(n) ==
    {i \in 1..Len(n.projections) :
        n.projections[i].alias # NoName \/ n.projections[i].exp.t = "IDENTIFIER"}
RepeatedColumns(n) ==
    {ColumnName(n.projections[i]) : i \in
        {k \in Named(n) : \E j \in Named(n) :
            j # k /\ ColumnName(n.projections[j]) = ColumnName(n.projections[k])}}

\* C30: a WITH or RETURN without * in which two projections yield the same
\* column name is rejected (a RETURN, which checks its columns first, with
\* SameResultColumnName), unless the repeated name is internal (starts with
\* '@'): SameResultColumnName is not reported for such a repetition.
C30_UniqueColumns ==
    \A o \in ObsOf({"WITH", "RETURN"}) :
        (/\ ~o.errpre
         /\ ~o.n.include_existing
         /\ Named(o.n) = 1..Len(o.n.projections))
        => /\ (\E c \in RepeatedColumns(o.n) : ~IsInternal(c)) =>
                  /\ o.errpost
                  /\ o.n.t = "RETURN" => vs.err = "SameResultColumnName"
           /\ (\A c \in RepeatedColumns(o.n) : IsInternal(c)) =>
                  ~(o.errpost /\ vs.err = "SameResultColumnName")

\* ------------------------------------------------------------------------
\* Properties of AST_ToString
\* ------------------------------------------------------------------------
\* node and relationship patterns without a user alias
Unaliased ==
    {n \in AstNodes : n.t \in {"NODE_PATTERN", "REL_PATTERN"}
                      /\ n.identifier = NoStr}
\* the last AST_ToString call was made for node n on a collection that had
\* not been disposed
CalledFor(n) ==
    /\ names.call.node = n.id
    /\ ~names.call.dangling
\* the collection the last call worked on, as the call left it
CalledCollection == names.col[names.call.g]
\* the un-aliased entities of collection g that have been given a name
NamedIn(g) == {n \in Unaliased : names.col[g].to_string[n.id] # NoStr}

\* C31: within the lifetime of an annotation collection, the first
\* AST_ToString call for a pattern without a user alias returns @anon_N for
\* the collection's counter N, attaches it to the node and increments the
\* counter; every later call for that node, through the master, a segment
\* or a shallow copy, returns the attached string and leaves the counter
\* alone; no call changes the string attached to another node, and distinct
\* un-aliased entities of one collection carry distinct names.
C31_AnonymousAlias ==
    /\ \A n \in Unaliased :
          CalledFor(n) =>
             LET pre == names.call.pre
                 post == CalledCollection
             IN /\ pre.to_string[n.id] = NoStr =>
                       /\ names.call.ret = <<"@anon_", pre.anon_count>>
                       /\ post.to_string[n.id] = names.call.ret
                       /\ post.anon_count = pre.anon_count + 1
                /\ pre.to_string[n.id] # NoStr =>
                       /\ names.call.ret = pre.to_string[n.id]
                       /\ post = pre
                /\ \A m \in AstNodes :
                       m # n => post.to_string[m.id] = pre.to_string[m.id]
    /\ \A g \in Groups :
          \A n, m \in NamedIn(g) :
              n # m => names.col[g].to_string[n.id] #
                       names.col[g].to_string[m.id]

\* C31 witness: both un-aliased entities have been named, and a call made
\* through a segment returned the second name from the annotation
C31_Witness ==
    /\ \E n \in Unaliased : CalledFor(n)
    /\ names.call.origin = "segment"
    /\ names.call.ret = <<"@anon_", 1>>
    /\ names.call.pre = CalledCollection
    /\ NamedIn(names.call.g) = Unaliased

\* segments that have not been released
LiveSegments ==
    {h \in Handles : handles[h].origin = "segment" /\ handles[h].st = "live"}

\* C37: the annotation-context collection a segment shares with its master
\* is not disposed while the segment is unreleased, in whichever order the
\* master and its segments are released.
C37_CollectionOutlivesSegments ==
    \A h \in LiveSegments : disposed.anot[handles[h].anot_ctx_collection] = 0

\* ------------------------------------------------------------------------
\* Properties of the scope validator: bodies, projections, subqueries
\* ------------------------------------------------------------------------
\* positions of the body clauses of a FOREACH that are not updating clauses
Offending(n) ==
    {i \in 1..Len(n.clauses) :
        n.clauses[i].t \notin {"CREATE", "SET", "REMOVE", "MERGE", "DELETE",
                               "FOREACH"}}
FirstOffending(n) == CHOOSE i \in Offending(n) : \A j \in Offending(n) : i <= j
\* the body clauses from position i on
BodyFrom(n, i) == {n.clauses[j] : j \in i..Len(n.clauses)}

\* C32: a FOREACH whose body holds a clause other than CREATE, SET, REMOVE,
\* MERGE, DELETE or FOREACH is rejected, with ForeachInvalidBody where
\* nothing before the offending clause can have failed, and neither the
\* offending clause nor a body clause after it is visited.
C32_ForeachBody ==
    \A o \in ObsOf({"FOREACH"}) :
        (~o.errpre /\ Offending(o.n) # {}) =>
            /\ o.errpost /\ o.strat = "BREAK"
            /\ (o.n.exp = IntLit /\ FirstOffending(o.n) = 1) =>
                   vs.err = "ForeachInvalidBody"
            /\ \A p \in vs.obs : p.n \notin BodyFrom(o.n, FirstOffending(o.n))

\* C32 witness: a FOREACH whose second body clause is a MATCH was rejected
\* with ForeachInvalidBody after its first body clause had validated
C32_Witness ==
    \E o \in ObsOf({"FOREACH"}) :
        /\ ~o.errpre /\ o.errpost
        /\ Offending(o.n) # {} /\ FirstOffending(o.n) = 2
        /\ Len(o.n.clauses) = 3
        /\ vs.err = "ForeachInvalidBody"

\* an expression without a scope of its own: a literal, an identifier or a
\* call of a known function on such
PlainExpr(e) ==
    \/ e.t \in {"INTEGER", "IDENTIFIER"}
    \/ /\ e.t = "APPLY_OPERATOR" /\ AR_FuncExists(e.func)
       /\ \A k \in 1..Len(e.args) : e.args[k].t \in {"INTEGER", "IDENTIFIER"}
PlainProjections(n) ==
    \A i \in 1..Len(n.projections) : PlainExpr(n.projections[i].exp)
\* the names the projection expressions of a WITH or RETURN refer to
ProjectionRefs(n) ==
    {name \in Names :
        \E i \in 1..Len(n.projections) : Mentions(n.projections[i].exp, name)}
\* the names a WITH or RETURN binds: WITH every column, RETURN every alias
ClauseAliases(n) ==
    {ColumnName(n.projections[i]) : i \in
        {k \in Named(n) : n.t = "WITH" \/ n.projections[k].alias # NoName}}
\* the predicate of a WITH and the ORDER BY items of a WITH or RETURN
TailExprs(n) ==
    (IF n.t = "WITH" /\ Present(n.predicate) THEN {n.predicate} ELSE {})
    \cup (IF Present(n.order_by)
             THEN {n.order_by.items[k] : k \in 1..Len(n.order_by.items)}
             ELSE {})
TailRefs(n) == {name \in Names : \E e \in TailExprs(n) : Mentions(e, name)}
\* nothing but an identifier lookup can fail in the clause: literal SKIP and
\* LIMIT, plain projections, every column named, no column name repeated
PlainClause(n) ==
    /\ \A m \in {n.skip, n.limit} : ~Present(m) \/ m = IntLit
    /\ PlainProjections(n)
    /\ Named(n) = 1..Len(n.projections)
    /\ RepeatedColumns(n) = {}
    /\ \A e \in TailExprs(n) : e.t = "IDENTIFIER"

\* what a WITH or RETURN did for its projections, predicate and ORDER BY
ProjectionScope(o, checked) ==
    /\ (/\ checked /\ PlainProjections(o.n)
        /\ \E name \in ProjectionRefs(o.n) : o.pre[name] = raxNotFound) =>
           /\ o.errpost /\ o.strat = "BREAK"
           /\ PlainClause(o.n) => vs.err = "NotDefined"
    /\ (/\ PlainClause(o.n)
        /\ ProjectionRefs(o.n) \subseteq Bound(o.pre)
        /\ TailRefs(o.n) \subseteq Bound(o.pre) \cup ClauseAliases(o.n)) =>
           Succeeded(o)

\* C33 as stated: a WITH or RETURN of plain projections one of which refers
\* to a name not bound before the clause, an alias of the same clause
\* included, is rejected (NotDefined); a predicate and an ORDER BY that refer to names
\* bound before the clause or to its aliases are accepted.
C33_ProjectionScope_Stated ==
    \A o \in ObsOf({"WITH", "RETURN"}) : ~o.errpre => ProjectionScope(o, TRUE)

\* C33: every projection of a WITH or RETURN is validated before an alias
\* of the clause is bound: unless ignore_identifiers is set, a clause of
\* plain projections one of which refers to a name not bound before the
\* clause, an alias of the same clause included, is rejected (NotDefined); the predicate of WITH and the
\* ORDER BY of WITH and RETURN see the earlier bindings and the new aliases:
\* those that refer to either are accepted.
C33_ProjectionScope ==
    \A o \in ObsOf({"WITH", "RETURN"}) : ~o.errpre => ProjectionScope(o, ~o.ignore)

\* C33 witness: WITH 1 AS a, count(a) AS b was rejected with NotDefined, a
\* not being bound before the clause
C33_Witness ==
    \E o \in ObsOf({"WITH"}) :
        /\ ~o.errpre /\ o.errpost /\ ~o.ignore /\ vs.err = "NotDefined"
        /\ PlainClause(o.n)
        /\ \E name \in ProjectionRefs(o.n) \cap ClauseAliases(o.n) :
              o.pre[name] = raxNotFound

\* the expression tree n holds a call of an aggregate function
RECURSIVE HoldsAggregate(_)
HoldsAggregate(n) ==
    \/ IsAggregateCall(n)
    \/ \E k \in 1..Len(Children(n)) : HoldsAggregate(Children(n)[k])
\* the init, list and eval expressions of a reduce
ReduceParts(n) == {n.init, n.exp, n.eval}
\* a reduce over literals whose only possible defect is an aggregate
LiteralReduce(n) ==
    \A e \in ReduceParts(n) :
        e = IntLit \/ (IsAggregateCall(e) /\ e.t = "APPLY_ALL_OPERATOR")
                   \/ (IsAggregateCall(e) /\ e.args = <<IntLit>>)

\* C34: a reduce of a WITH or RETURN that holds a call of an aggregate
\* function in its init, list or eval expression is rejected, with
\* InvalidUseOfAggregation where nothing else in it can fail; a reduce that
\* validates leaves the clause of the context as it found it, and a WITH or
\* RETURN in which an aggregate follows a valid reduce is accepted.
C34_ReduceAggregation ==
    /\ \A o \in ObsOf({"REDUCE"}) :
          (~o.errpre /\ o.preclause \in {"WITH", "RETURN"}) =>
              /\ (\E e \in ReduceParts(o.n) : HoldsAggregate(e)) =>
                     /\ o.errpost /\ o.strat = "BREAK"
                     /\ LiteralReduce(o.n) => vs.err = "InvalidUseOfAggregation"
              /\ Succeeded(o) => o.postclause = o.preclause
    /\ \A o \in ObsOf({"WITH", "RETURN"}) :
          (/\ ~o.errpre /\ Len(o.n.projections) = 2
           /\ o.n.projections[1].exp = Reduce(nA, IntLit, nB, IntLit, Ia)
           /\ IsAggregateCall(o.n.projections[2].exp)) =>
              Succeeded(o)

\* positions of the clauses that open a branch of a CALL {} body: the first
\* clause and every clause that follows a UNION
Leading(body) ==
    {i \in 1..Len(body) : i = 1 \/ body[i - 1].t = "UNION"}
\* the environment a branch opened by clause c is validated in, for a
\* subquery entered with environment outer
BranchEnv(c, outer) == IF c.t = "WITH" THEN outer ELSE EmptyEnv
\* the clauses of a body
BodyClauses(n) == {n.body[i] : i \in 1..Len(n.body)}

\* what the validation of a CALL {} did with the environments of its body:
\* each branch starts from the outer environment if it opens with WITH and
\* from the empty environment otherwise, and in a body without imports a
\* RETURN of plain projections that refers to a name bound outside the
\* subquery and not in the body is rejected with NotDefined
SubqueryScope(o, stated) ==
    /\ \A i \in Leading(o.n.body) :
          \A p \in vs.obs :
              p.n = o.n.body[i] => p.pre = BranchEnv(o.n.body[i], o.pre)
    /\ \A p \in ObsOf({"RETURN"}) :
          (/\ o.n.body[1].t # "WITH" /\ p.n \in BodyClauses(o.n)
           /\ ~p.errpre /\ PlainClause(p.n) /\ (stated \/ ~p.ignore)
           /\ \E name \in ProjectionRefs(p.n) :
                 o.pre[name] # raxNotFound /\ p.pre[name] = raxNotFound) =>
              (p.errpost /\ vs.err = "NotDefined")

\* C35 as stated: the branches of a CALL {} body start from the outer
\* environment or the empty one as they open with WITH or not, and a
\* reference to an outer identifier in a body without imports is rejected
\* with NotDefined.
C35_SubqueryEnv_Stated ==
    \A o \in ObsOf({"CALL_SUBQUERY"}) : ~o.errpre => SubqueryScope(o, TRUE)

\* C35: a CALL {} body whose first clause is not WITH is validated starting
\* from the empty environment, so that, unless ignore_identifiers is set, a
\* reference in it to an outer identifier is rejected with NotDefined; after
\* a UNION in the body a branch that opens with WITH starts from a copy of
\* the environment the subquery was entered with, any other branch from the
\* empty environment.
C35_SubqueryEnv ==
    \A o \in ObsOf({"CALL_SUBQUERY"}) : ~o.errpre => SubqueryScope(o, FALSE)

\* C35 witness: MATCH (a) CALL { RETURN a AS b } was rejected with
\* NotDefined, the body having been entered with nothing bound
C35_Witness ==
    \E o \in ObsOf({"CALL_SUBQUERY"}) :
        /\ ~o.errpre /\ ~o.ignore /\ Bound(o.pre) # {}
        /\ o.n.body[1].t = "RETURN" /\ o.errpost /\ vs.err = "NotDefined"
        /\ \E name \in ProjectionRefs(o.n.body[1]) : o.pre[name] # raxNotFound
        /\ \E p \in vs.obs : p.n = o.n.body[1] /\ p.pre = EmptyEnv


\* ---------------------------------------------------------------------
\* Properties of the scope validator: the entities of MERGE
\* ---------------------------------------------------------------------

MergeErrors == {"VarLen", "Redeclare", "OneRelationshipType"}

\* what the checks of MERGE make of one entity, given the names bound
MergeEntityRule(e, bound) ==
    IF e.t = "REL_PATTERN"
       THEN IF Present(e.varlength) THEN "VarLen"
            ELSE IF e.id \in bound THEN "Redeclare"
            ELSE IF e.nreltypes # 1 THEN "OneRelationshipType"
            ELSE "none"
       ELSE IF e.id \in bound /\ (e.nlabels # 0 \/ Present(e.props))
               THEN "Redeclare"
               ELSE "none"

\* the verdict on the entities of a path from the i-th on: the error of the
\* first entity the checks reject, "none" when all pass, "open" from an
\* entity with inline properties on, whose validation may fail first
RECURSIVE MergeVerdict(_, _, _)
MergeVerdict(elems, i, bound) ==
    IF i > Len(elems) THEN "none"
    ELSE IF Present(elems[i].props) /\ elems[i].props.t # "MAP" THEN "open"
    ELSE IF MergeEntityRule(elems[i], bound) # "none"
            THEN MergeEntityRule(elems[i], bound)
    ELSE IF Present(elems[i].props) THEN "open"
    ELSE MergeVerdict(elems, i + 1, bound \cup ({elems[i].id} \cap Names))

\* C36: in MERGE, a relationship pattern is rejected with VarLen if it is
\* variable-length, else with Redeclare if its identifier is bound, else with
\* OneRelationshipType if it has not exactly one type; a node pattern whose
\* identifier is bound is rejected, with Redeclare, exactly when it carries
\* labels or inline properties.
C36_MergeEntities ==
    \A o \in ObsOf({"MERGE"}) : ~o.errpre =>
        /\ MergeVerdict(o.n.path.elems, 1, Bound(o.pre)) \in MergeErrors =>
               /\ o.errpost
               /\ vs.err = MergeVerdict(o.n.path.elems, 1, Bound(o.pre))
        /\ MergeVerdict(o.n.path.elems, 1, Bound(o.pre)) = "none" => ~o.errpost

\* a relationship with a bound identifier and no type was rejected with
\* Redeclare, and a MERGE re-using a bound node without labels was accepted
C36_Witness ==
    \E o \in ObsOf({"MERGE"}) :
        /\ ~o.errpre /\ o.errpost /\ vs.err = "Redeclare"
        /\ \E i \in 1..Len(o.n.path.elems) :
               /\ o.n.path.elems[i].t = "REL_PATTERN"
               /\ o.n.path.elems[i].id \in Bound(o.pre)
               /\ o.n.path.elems[i].nreltypes # 1
               /\ ~Present(o.n.path.elems[i].varlength)


\* ---------------------------------------------------------------------
\* Properties of AST_Validate_Query: the branches of a UNION
\* ---------------------------------------------------------------------

\* every UNION of the list comes right after a RETURN
UnionsPrecededByReturn(list) ==
    \A i \in PositionsOf(list, {"UNION"}) : i > 1 /\ list[i - 1].t = "RETURN"

\* a list with a UNION ends with a RETURN
UnionListEndsWithReturn(list) ==
    PositionsOf(list, {"UNION"}) # {} => list[Len(list)].t = "RETURN"

\* C38: in a query body that passes the checks, every UNION of every clause
\* list (the body and the CALL {} bodies at any depth) comes right after a
\* RETURN, and a clause list with a UNION ends with a RETURN: every branch
\* of a UNION ends with RETURN.
C38_UnionBranchesReturn ==
    PassedUnion =>
        \A list \in ClauseLists(qv.query) :
            UnionsPrecededByReturn(list) /\ UnionListEndsWithReturn(list)

\* a body of three branches has passed the checks
C38_Witness ==
    /\ PassedUnion
    /\ Cardinality(PositionsOf(qv.query, {"UNION"})) = 2
    /\ UnionsPrecededByReturn(qv.query) /\ UnionListEndsWithReturn(qv.query)


\* ---------------------------------------------------------------------
\* Properties of the scope validator: the frame of a procedure CALL
\* ---------------------------------------------------------------------

\* the names a CALL yields: the alias of a projection, else its output name
YieldedNames(n) ==
    {ColumnName(n.projections[i]) : i \in 1..Len(n.projections)}

\* the clause visited last was the procedure call o.n, and it validated
CallValidated(o) ==
    /\ vpc = "visit" /\ vs.clause = "CALL" /\ vs.err = "none"
    /\ ObsOf({"CALL_SUBQUERY"}) = {}
    /\ ~o.errpre

\* C39: once a procedure CALL with YIELD has validated, every identifier
\* that was bound before the CALL is still bound, and the identifiers bound
\* in addition are the yield aliases, or the output names of the yields
\* without alias.
C39_CallFrame ==
    \A o \in ObsOf({"CALL"}) : CallValidated(o) =>
        /\ Bound(o.pre) \subseteq Bound(EnvOf(vs))
        /\ Bound(EnvOf(vs)) \ Bound(o.pre) \subseteq YieldedNames(o.n)


\* ---------------------------------------------------------------------
\* Properties of the scope validator: ignore_identifiers
\* ---------------------------------------------------------------------

\* the RETURN * clauses of the CALL {} bodies visited in the last step
RECURSIVE HoldsReturnAll(_)
HoldsReturnAll(body) ==
    \E i \in 1..Len(body) :
        \/ body[i].t = "RETURN" /\ body[i].include_existing
        \/ body[i].t = "CALL_SUBQUERY" /\ HoldsReturnAll(body[i].body)

\* the flag is set by the step, which then visited a RETURN * of a CALL {}
IgnoreSetBySubquery ==
    (~vs.ignore_identifiers /\ vs'.ignore_identifiers) =>
        \E o \in vs'.obs, p \in vs'.obs :
            /\ o.n.t = "CALL_SUBQUERY" /\ HoldsReturnAll(o.n.body)
            /\ p.n.t = "RETURN" /\ p.n.include_existing /\ ~p.errpost

\* the flag, once set, stays set, and every handler called later sees it
IgnoreKept ==
    vs.ignore_identifiers =>
        /\ vs'.ignore_identifiers
        /\ vn' # vn => \A o \in vs'.obs : o.ignore

\* an identifier reference visited with the flag set is accepted by its
\* handler, bound or not: no lookup is made and no error is reported
IgnoreAccepts ==
    \A o \in vs'.obs :
        (o.n.t = "IDENTIFIER" /\ o.ignore) =>
            (o.strat = "CONTINUE" /\ o.errpost = o.errpre)

\* C40: ignore_identifiers is false when a validation pass starts, is set
\* only by a step that visited a RETURN * inside a CALL {} body, is never
\* cleared afterwards, and every identifier reference visited from then on,
\* inside or outside the subquery, is accepted without lookup.
C40_IgnoreIdentifiers ==
    [][/\ vpc = "start" => ~vs'.ignore_identifiers
       /\ IgnoreSetBySubquery
       /\ IgnoreKept
       /\ IgnoreAccepts]_vars

\* after CALL { RETURN * }, a clause outside the subquery referred to an
\* identifier that is not bound, and validated
C40_Witness ==
    /\ vpc = "visit" /\ vs.ignore_identifiers /\ vs.err = "none"
    /\ ObsOf({"CALL_SUBQUERY"}) = {}
    /\ \E o \in ObsOf({"IDENTIFIER"}) :
           o.ignore /\ o.pre[o.n.name] = raxNotFound /\ ~o.errpost
====
